---- MODULE Spec2Model ----
(***************************************************************************)
(* A state-machine model of the messaging service (Austin-rgb/messages):   *)
(*   - the message ingestion worker draining the messages stream into the  *)
(*     messages table (workers.rs db_worker, repositories.rs insert_many); *)
(*   - the receipt upsert primitives (repositories.rs MessageReceipt);     *)
(*   - the session registry actor and its sessions (ws.rs);                *)
(*   - the conversation write path (handlers.rs post_message and the       *)
(*     fan-out of main.rs deliver_message).                                *)
(* Each subsystem has its own specification over the shared variables; a   *)
(* subsystem that a specification does not exercise stays in its initial   *)
(* state.                                                                  *)
(***************************************************************************)
EXTENDS Integers, Sequences, FiniteSets, TLC

VARIABLES
  \* ---- durable queue: the messages stream and its consumer group
  stream,         \* entries of messages_stream, in XADD order (entry id = index)
  lastDelivered,  \* the group's last-delivered-id: entries above it are "new"
  pel,            \* pending entries list of consumer worker-1 (delivered, unacked)
  \* ---- message worker task
  wpc,            \* "read" | "insert" | "down"
  wbatch,         \* the entries of the iteration in progress
  crashes,        \* how many times the worker task was killed
  processed,      \* history: entry ids whose batch reached Message::insert_many
  \* ---- batch worker task (stream_worker) on the messages stream
  bpc,            \* "pending" | "new" | "process" | "ack" | "down"
  bentries,       \* the entries the iteration's read returned
  ackIds,         \* the entry ids the handler returned
  handed,         \* history: entry id -> times it was handed to the handler (0, 1, 2+)
  \* ---- persistent store
  messages,       \* table messages: rows in rowid order, UNIQUE(id)
  message_receipts, \* table message_receipts: <<message, user>> -> row
  participants,   \* table participants: conversation -> participants in rowid order
  \* ---- receipt upserts
  now,            \* the wall clock read by time_now()
  hist,           \* history: per <<message, user>>, what the upserts provided
  stmt,           \* the batch_upsert statement in progress: [open, t]
  \* ---- session registry (ChatServer) and sessions (WsSession)
  users,          \* ChatServer.users: principal -> sink (the session's address)
  srMailbox,      \* the ChatServer actor's mailbox, in do_send order
  sessions,       \* session -> [user, st]; st is "idle" | "live" | "stopped"
  sinkq,          \* session -> ServerMessage payloads handed to its address
  connLog,        \* history: principal -> sinks of the Connects handled, in order
  routeLog,       \* history: principal -> [payload, to] of the Deliver/Private handled, in order
  sent,           \* how many DeliverMessage/PrivateMessage requests were sent
  \* ---- write path
  pcache,         \* PARTICIPANTS_CACHE: conversation -> cached participant list
  req,            \* post_message requests: request -> [pc, user, conv, plist]
  msgChan,        \* envelopes sent to workers.msg_worker, in send order
  \* ---- mailboxes, receipts topic, HTTP responses, session sockets
  mcache,         \* MBOX_CACHE: owner -> mailbox id
  issued,         \* history: mailbox id -> the owner create_default_mbox generated it for
  boxes,          \* table boxes: rows [id, owner]
  receipts_stream, \* receipt events handed to the receipts topic, in order
  resp,           \* the response of the request served last
  http,           \* how many requests of the read/receipt/inbox endpoints were served
  wire,           \* session -> text frames written to its socket
  \* ---- Cache (libcache.rs): local map, Redis keys, tasks inside get
  local,          \* Cache.local: key -> value (a HashMap, entries never expire)
  redis,          \* Redis strings written by SET EX: key -> [val, at, exp]
  ctime,          \* the clock Redis expires keys by
  gets,           \* task -> [pc, key, val, fb]: a call of Cache::get in progress
  gret,           \* what the get that returned last returned (fberrs: history)
  nget,           \* how many calls of Cache::get were started
  \* ---- heartbeat of one WsSession
  hnow,           \* Instant::now(), in seconds
  hs,             \* [st, last_heartbeat, due, nticks] and history of the ticks
  \* ---- conversations
  conversations,  \* table conversations: rows [name, admin], PRIMARY KEY(name)
  \* ---- receipt_worker and the receipts_group of receipts_stream
  rpc,            \* "read", "process" or "down"
  rentries,       \* the entries of the XREADGROUP reply being processed
  rLast,          \* last entry of receipts_stream delivered to the group
  rpel,           \* entries delivered to worker-1 and not acknowledged
  rdone,          \* history: entries whose upsert was committed
  rcrashes,       \* panics of the worker task
  replay          \* a batch of receipts applied twice: [phase, batch, once]

queueVars    == <<stream, lastDelivered, pel>>
batchVars    == <<bpc, bentries, ackIds, handed>>
cacheVars    == <<local, redis, ctime, gets, gret, nget>>
hbVars       == <<hnow, hs>>
convVars     == <<conversations>>
rwVars       == <<rpc, rentries, rLast, rpel, rdone, rcrashes, replay>>
sideVars     == <<cacheVars, hbVars, convVars, rwVars>>
workerVars   == <<wpc, wbatch, crashes, processed, batchVars, sideVars>>
storeVars    == <<messages, message_receipts, participants>>
receiptVars  == <<now, hist, stmt>>
registryVars == <<users, sessions, sinkq, connLog, routeLog, sent>>
httpVars     == <<mcache, issued, boxes, receipts_stream, resp, http, wire>>
writeVars    == <<pcache, req, msgChan, httpVars>>

vars == <<queueVars, workerVars, storeVars, receiptVars, registryVars, srMailbox,
          writeVars>>

(***************************************************************************)
(* Bounds of the model.                                                    *)
(***************************************************************************)
MaxStream == 3    \* entries ever appended to messages_stream
BatchMax  == 2    \* XREADGROUP COUNT, scaled down from the source's 100
MaxCrash  == 1    \* kills of the worker task

MaxClock    == 2  \* values the wall clock takes
MaxSessions == 2  \* websocket sessions ever opened
MaxSent     == 2  \* DeliverMessage/PrivateMessage requests sent to the registry
MaxPeer     == 1  \* peer inbox posts
MaxHttp     == 2  \* requests served by the read/receipt/inbox endpoints
MaxReq      == 2  \* post_message requests
MaxGet      == 3  \* calls of Cache::get
MaxCacheClock == 2 \* values the cache clock takes after 0
CacheTasks  == 2  \* tasks that may be inside Cache::get at once
CacheTTL    == 1  \* ttl_secs in clock ticks, scaled down from the source's 600
MaxHbClock  == 17 \* seconds the heartbeat clock runs
MaxConv     == 2  \* create_conversation requests
HbMaxLate   == 1  \* seconds an interval tick may fire after it is due
MaxReceipts == 3  \* entries ever appended to receipts_stream by the publisher
ReceiptCount == 2 \* receipt_worker's XREADGROUP COUNT, scaled down from 200

MsgIds     == {"m1", "m2", "m3"}
Mboxes     == {"c1"}
Principals == {"alice", "bob", "carol"}
Convs      == {"c1"}
Sessions   == 1..MaxSessions
Requests   == 1..MaxReq

Min(a, b) == IF a <= b THEN a ELSE b

\* A map with no key (an empty table, an empty HashMap).
EmptyMap == [k \in {} |-> k]

(***************************************************************************)
(* Payloads of stream entries: the JSON of an InsertMessage envelope, or   *)
(* text that serde_json cannot parse as one.                               *)
(***************************************************************************)
Envelope(i, b) == [wellformed |-> TRUE, id |-> i, mbox |-> b]
Malformed == [wellformed |-> FALSE, id |-> "none", mbox |-> "none"]
Envelopes == {Envelope(i, b) : i \in MsgIds, b \in Mboxes}

IdsOf(rows) == {rows[k].id : k \in 1..Len(rows)}

(***************************************************************************)
(* Message::insert_many: one multi-row INSERT INTO messages, no conflict   *)
(* clause.  The table has UNIQUE(id), so a row whose id is already stored, *)
(* or two rows of the statement with one id, abort the statement: SQLite   *)
(* backs out every row of it and the call returns Err.                     *)
(***************************************************************************)
HasConflict(table, msgs) ==
  \/ \E i \in 1..Len(msgs) : msgs[i].id \in IdsOf(table)
  \/ \E i, j \in 1..Len(msgs) : i # j /\ msgs[i].id = msgs[j].id

insert_many_swallow(table, msgs) ==
  IF HasConflict(table, msgs)
  THEN [ok |-> TRUE, table |-> table]
  ELSE [ok |-> TRUE, table |-> table \o msgs]

insert_many(table, msgs) ==
  IF HasConflict(table, msgs)
  THEN [ok |-> FALSE, table |-> table]
  ELSE [ok |-> TRUE, table |-> table \o msgs]

(***************************************************************************)
(* Initial state of each subsystem.                                        *)
(***************************************************************************)
InitQueue ==
  /\ stream = <<>>
  /\ lastDelivered = 0
  /\ pel = {}

InitWorker ==
  /\ wpc = "read"
  /\ wbatch = <<>>
  /\ crashes = 0
  /\ processed = {}

InitBatch ==
  /\ bpc = "pending"
  /\ bentries = <<>>
  /\ ackIds = {}
  /\ handed = [n \in 1..MaxStream |-> 0]

InitStore ==
  /\ messages = <<>>
  /\ message_receipts = EmptyMap
  /\ participants = [c \in Convs |-> <<>>]

InitRegistry ==
  /\ users = EmptyMap
  /\ srMailbox = <<>>
  /\ sessions = [s \in Sessions |-> [user |-> "none", st |-> "idle"]]
  /\ sinkq = [s \in Sessions |-> <<>>]
  /\ connLog = [p \in Principals |-> <<>>]
  /\ routeLog = [p \in Principals |-> <<>>]
  /\ sent = 0

InitWrite ==
  /\ pcache = EmptyMap
  /\ req = [r \in Requests |-> [pc |-> "idle", user |-> "none", conv |-> "none",
                                plist |-> <<>>, targets |-> <<>>]]
  /\ msgChan = <<>>

NoResponse == [n |-> 0, kind |-> "none", user |-> "none", target |-> "none",
               status |-> 0, rows |-> <<>>]

InitHttp ==
  /\ mcache = EmptyMap
  /\ issued = EmptyMap
  /\ boxes = <<>>
  /\ receipts_stream = <<>>
  /\ resp = NoResponse
  /\ http = 0
  /\ wire = [s \in Sessions |-> <<>>]

NoGet == [pc |-> "idle", key |-> "none", val |-> <<>>, fb |-> "none"]
NoReturn == [n |-> 0, key |-> "none", ok |-> FALSE, err |-> "none", val |-> <<>>,
             src |-> "none", at |-> 0, time |-> 0, fberrs |-> 0]

InitCache ==
  /\ local = EmptyMap
  /\ redis = EmptyMap
  /\ ctime = 0
  /\ gets = [t \in 1..CacheTasks |-> NoGet]
  /\ gret = NoReturn
  /\ nget = 0

InitConv == conversations = <<>>

InitRw ==
  /\ rpc = "read"
  /\ rentries = <<>>
  /\ rLast = 0
  /\ rpel = {}
  /\ rdone = {}
  /\ rcrashes = 0
  /\ replay = [phase |-> "idle", batch |-> <<>>, once |-> EmptyMap]

InitHb ==
  /\ hnow = 0
  /\ hs = [st |-> "opening", last_heartbeat |-> 0, due |-> 0, nticks |-> 0,
           owed |-> 0, missed |-> FALSE, heard |-> FALSE, closedAt |-> 0,
           tick |-> [t |-> 0, last |-> 0, closed |-> FALSE, ping |-> FALSE]]

InitReceipts ==
  /\ now = 1
  /\ hist = EmptyMap
  /\ stmt = [open |-> FALSE, t |-> 0]

(***************************************************************************)
(* XADD messages_stream * payload <p>, by any publisher.                   *)
(***************************************************************************)
Publish(p) ==
  /\ Len(stream) < MaxStream
  /\ stream' = Append(stream, p)
  /\ UNCHANGED <<lastDelivered, pel, workerVars, storeVars, receiptVars,
                 registryVars, srMailbox, writeVars>>

\* A publisher that stamps a fresh uuid on every envelope, as the write path does.
PublishFresh(p) ==
  /\ p.wellformed
  /\ p.id \notin IdsOf(stream)
  /\ Publish(p)

(***************************************************************************)
(* db_worker, one loop iteration in two steps.                             *)
(* DbRead: XREADGROUP GROUP db_group worker-1 COUNT 100 BLOCK 5000         *)
(* STREAMS messages_stream > : the never-delivered entries, at most COUNT, *)
(* which the group records as pending for worker-1.  An empty reply loops  *)
(* back to the same read, so the step waits for a new entry.               *)
(***************************************************************************)
DbRead ==
  /\ wpc = "read"
  /\ lastDelivered < Len(stream)
  /\ LET n == Min(BatchMax, Len(stream) - lastDelivered)
     IN /\ wbatch' = [k \in 1..n |->
                        [eid |-> lastDelivered + k, payload |-> stream[lastDelivered + k]]]
        /\ pel' = pel \cup ((lastDelivered + 1)..(lastDelivered + n))
        /\ lastDelivered' = lastDelivered + n
  /\ wpc' = "insert"
  /\ UNCHANGED <<stream, crashes, processed, batchVars, sideVars, storeVars, receiptVars,
                 registryVars, srMailbox, writeVars>>

(***************************************************************************)
(* DbInsert: from_str(..).unwrap() of every payload (a malformed one       *)
(* panics the task), then Message::insert_many; its error is printed and   *)
(* the loop goes on.  No XACK is ever sent.                                *)
(***************************************************************************)
DbInsert ==
  /\ wpc = "insert"
  /\ IF \E k \in 1..Len(wbatch) : ~wbatch[k].payload.wellformed
     THEN /\ wpc' = "down"
          /\ UNCHANGED <<messages, processed>>
     ELSE /\ messages' = insert_many(messages, [k \in 1..Len(wbatch) |-> wbatch[k].payload]).table
          /\ processed' = processed \cup {wbatch[k].eid : k \in 1..Len(wbatch)}
          /\ wpc' = "read"
  /\ wbatch' = <<>>
  /\ UNCHANGED <<queueVars, crashes, batchVars, sideVars, message_receipts, participants, receiptVars,
                 registryVars, srMailbox, writeVars>>

\* The worker task dies at any point of an iteration (process kill, panic).
Crash ==
  /\ wpc \in {"read", "insert"}
  /\ crashes < MaxCrash
  /\ wpc' = "down"
  /\ wbatch' = <<>>
  /\ crashes' = crashes + 1
  /\ UNCHANGED <<queueVars, processed, batchVars, sideVars, storeVars, receiptVars,
                 registryVars, srMailbox, writeVars>>

(***************************************************************************)
(* The process is started again: db_worker connects and ensure_group finds *)
(* the group (BUSYGROUP is ignored), whose cursor and pending list Redis   *)
(* kept.                                                                   *)
(***************************************************************************)
Restart ==
  /\ wpc = "down"
  /\ wpc' = "read"
  /\ wbatch' = <<>>
  /\ UNCHANGED <<queueVars, crashes, processed, batchVars, sideVars, storeVars, receiptVars,
                 registryVars, srMailbox, writeVars>>

Init == InitQueue /\ InitWorker /\ InitBatch /\ InitStore /\ InitReceipts /\ InitRegistry /\ InitWrite
        /\ InitHttp /\ InitCache /\ InitHb /\ InitConv /\ InitRw

(***************************************************************************)
(* SpecWorker: the worker against a stream any publisher may append to     *)
(* (repeated ids and malformed payloads included).                         *)
(***************************************************************************)
NextWorker ==
  \/ \E p \in Envelopes \cup {Malformed} : Publish(p)
  \/ DbRead
  \/ DbInsert
  \/ Crash
  \/ Restart

SpecWorker == Init /\ [][NextWorker]_vars

(***************************************************************************)
(* FairSpecIngest: the worker against the write path's publishes only      *)
(* (well-formed, fresh ids).  The worker task is scheduled whenever it can *)
(* step and a dead worker is restarted; kills are not forced.              *)
(***************************************************************************)
NextIngest ==
  \/ \E p \in Envelopes : PublishFresh(p)
  \/ DbRead
  \/ DbInsert
  \/ Crash
  \/ Restart

FairSpecIngest ==
  /\ Init
  /\ [][NextIngest]_vars
  /\ WF_vars(DbRead)
  /\ WF_vars(DbInsert)
  /\ WF_vars(Restart)

Persisted(i) == i \in IdsOf(messages)

\* C1: at-least-once ingestion. Every well-formed envelope published to the
\* messages stream is eventually a row of the messages table, wherever the
\* worker was killed, once it is restarted and scheduled fairly.
C1_AtLeastOnce ==
  \A n \in 1..MaxStream :
    (n <= Len(stream) /\ stream[n].wellformed) ~> (n <= Len(stream) /\ Persisted(stream[n].id))

RowsWithId(i) == Cardinality({k \in 1..Len(messages) : messages[k].id = i})
Occurrences(i) == {n \in 1..Len(stream) : stream[n].wellformed /\ stream[n].id = i}

\* C2: idempotent persistence. When an envelope id occurs two or more times in
\* the stream and the worker has handed every one of those entries to
\* insert_many, the messages table holds exactly one row with that id, and
\* message_receipts is untouched.
C2_IdempotentPersistence ==
  \A i \in MsgIds :
    (Cardinality(Occurrences(i)) >= 2 /\ Occurrences(i) \subseteq processed)
      => (RowsWithId(i) = 1 /\ message_receipts = <<>>)

(***************************************************************************)
(* Receipts.  A Receipt event is {message, user, delivered, read,          *)
(* reaction}; a message_receipts row is {delivered_at, read_at, reaction}  *)
(* under UNIQUE(message, user).  Null is SQL NULL / Option::None.          *)
(***************************************************************************)
Null == -1
Reactions == {3, 7}
ReceiptMsgs == {"m1"}
ReceiptUsers == {"alice", "bob"}

ReceiptEvents ==
  [message : ReceiptMsgs, user : ReceiptUsers,
   delivered : BOOLEAN, read : BOOLEAN, reaction : Reactions \cup {Null}]

\* SQL COALESCE(a, b): the first argument that is not NULL.
CoalesceSecond(a, b) == IF b # Null THEN b ELSE a
Coalesce(a, b) == IF a # Null THEN a ELSE b

\* if receipt.delivered { Some(now) } else { None }, and the same for read
Stamp(flag, t) == IF flag THEN t ELSE Null

Excluded(r, t) ==
  [delivered_at |-> Stamp(r.delivered, t),
   read_at      |-> Stamp(r.read, t),
   reaction     |-> r.reaction]

\* ON CONFLICT(message, user) DO UPDATE SET ... of MessageReceipt::upsert
UpsertConflict(old, excluded) ==
  [delivered_at |-> Coalesce(old.delivered_at, excluded.delivered_at),
   read_at      |-> Coalesce(old.read_at, excluded.read_at),
   reaction     |-> excluded.reaction]

\* ON CONFLICT(message, user) DO UPDATE SET ... of MessageReceipt::batch_upsert
BatchConflictLatest(old, excluded) ==
  [delivered_at |-> CoalesceSecond(old.delivered_at, excluded.delivered_at),
   read_at      |-> CoalesceSecond(old.read_at, excluded.read_at),
   reaction     |-> excluded.reaction]
BatchConflict(old, excluded) ==
  [delivered_at |-> Coalesce(old.delivered_at, excluded.delivered_at),
   read_at      |-> Coalesce(old.read_at, excluded.read_at),
   reaction     |-> excluded.reaction]

Put(map, key, val) == [k \in DOMAIN map \cup {key} |-> IF k = key THEN val ELSE map[k]]

\* MessageReceipt::upsert: INSERT one row, or merge it into the stored one.
upsert(table, r, t) ==
  LET key == <<r.message, r.user>>
  IN IF key \in DOMAIN table
     THEN Put(table, key, UpsertConflict(table[key], Excluded(r, t)))
     ELSE Put(table, key, Excluded(r, t))

\* MessageReceipt::batch_upsert, one row of the statement's VALUES list: SQLite
\* inserts it or merges it into the stored row (which an earlier row of the
\* same statement may have written).
batch_row(table, r, t) ==
  LET key == <<r.message, r.user>>
  IN IF key \in DOMAIN table
     THEN Put(table, key, BatchConflict(table[key], Excluded(r, t)))
     ELSE Put(table, key, Excluded(r, t))

(***************************************************************************)
(* History of what the upserts of a pair provided: the earliest and the    *)
(* latest time of an upsert with delivered (read) set, and the last        *)
(* reaction that was not null.                                             *)
(***************************************************************************)
NoHist == [dmin |-> Null, dlast |-> Null, rmin |-> Null, rlast |-> Null, reaction |-> Null]

Earliest(old, flag, t) == IF flag /\ (old = Null \/ t < old) THEN t ELSE old

Record(h, r, t) ==
  LET key == <<r.message, r.user>>
      old == IF key \in DOMAIN h THEN h[key] ELSE NoHist
  IN Put(h, key,
         [dmin  |-> Earliest(old.dmin, r.delivered, t),
          dlast |-> IF r.delivered THEN t ELSE old.dlast,
          rmin  |-> Earliest(old.rmin, r.read, t),
          rlast |-> IF r.read THEN t ELSE old.rlast,
          reaction |-> IF r.reaction # Null THEN r.reaction ELSE old.reaction])

\* One call of MessageReceipt::upsert on the store.
ReceiptUpsert(r) ==
  /\ ~stmt.open
  /\ message_receipts' = upsert(message_receipts, r, now)
  /\ hist' = Record(hist, r, now)
  /\ UNCHANGED <<queueVars, workerVars, messages, participants, now, stmt,
                 registryVars, srMailbox, writeVars>>

(***************************************************************************)
(* One call of MessageReceipt::batch_upsert, a single INSERT statement:    *)
(* BatchBegin reads time_now() once for all rows, BatchRow is the          *)
(* statement taking its next row, BatchEnd its completion.  Nothing else   *)
(* touches the store while the statement runs, and the slice has any       *)
(* length; an empty one returns at once (BatchBegin, BatchEnd).            *)
(***************************************************************************)
BatchBegin ==
  /\ ~stmt.open
  /\ stmt' = [open |-> TRUE, t |-> now]
  /\ UNCHANGED <<queueVars, workerVars, storeVars, now, hist,
                 registryVars, srMailbox, writeVars>>

BatchRow(r) ==
  /\ stmt.open
  /\ message_receipts' = batch_row(message_receipts, r, stmt.t)
  /\ hist' = Record(hist, r, stmt.t)
  /\ UNCHANGED <<queueVars, workerVars, messages, participants, now, stmt,
                 registryVars, srMailbox, writeVars>>

BatchEnd ==
  /\ stmt.open
  /\ stmt' = [open |-> FALSE, t |-> 0]
  /\ UNCHANGED <<queueVars, workerVars, storeVars, now, hist,
                 registryVars, srMailbox, writeVars>>

\* Time passes between two statements.
Tick ==
  /\ ~stmt.open
  /\ now < MaxClock
  /\ now' = now + 1
  /\ UNCHANGED <<queueVars, workerVars, storeVars, hist, stmt,
                 registryVars, srMailbox, writeVars>>

NextReceipts ==
  \/ \E r \in ReceiptEvents : ReceiptUpsert(r)
  \/ BatchBegin
  \/ \E r \in ReceiptEvents : BatchRow(r)
  \/ BatchEnd
  \/ Tick

SpecReceipts == Init /\ [][NextReceipts]_vars

\* C6: receipts never regress. Once delivered_at of a (message, user) row is
\* non-null it has the same value in every later state, and so has read_at,
\* whatever upsert or batch upsert comes next.
C6_ReceiptsNeverRegress ==
  [][\A k \in DOMAIN message_receipts :
       /\ k \in DOMAIN message_receipts'
       /\ message_receipts[k].delivered_at # Null
            => message_receipts'[k].delivered_at = message_receipts[k].delivered_at
       /\ message_receipts[k].read_at # Null
            => message_receipts'[k].read_at = message_receipts[k].read_at]_vars

\* A row keeps its delivered_at and read_at although later upserts set them again.
C6_Witness ==
  \E k \in DOMAIN message_receipts :
    /\ message_receipts[k].delivered_at # Null
    /\ hist[k].dlast > message_receipts[k].delivered_at
    /\ message_receipts[k].read_at # Null
    /\ hist[k].rlast > message_receipts[k].read_at

\* C7: reaction is last-non-null-wins. The stored reaction of a pair is the
\* reaction of the last upsert of that pair that carried one; an upsert with
\* a null reaction (a delivery or read receipt) does not erase it.
C7_ReactionLastNonNull ==
  \A k \in DOMAIN message_receipts : message_receipts[k].reaction = hist[k].reaction

\* C8: the stored delivered_at is the minimum of the times of the upserts that
\* had delivered set (null if none had), and read_at the minimum of those
\* that had read set.
C8_EarliestTimestamp ==
  /\ DOMAIN message_receipts = DOMAIN hist
  /\ \A k \in DOMAIN message_receipts :
       /\ message_receipts[k].delivered_at = hist[k].dmin
       /\ message_receipts[k].read_at = hist[k].rmin

\* Two pairs, one with delivered and read receipts at several times, the other
\* with a read receipt only.
C8_Witness ==
  \E k, j \in DOMAIN message_receipts :
    /\ hist[k].dlast > hist[k].dmin /\ hist[k].dmin # Null
    /\ hist[k].rlast > hist[k].rmin /\ hist[k].rmin # Null
    /\ message_receipts[k].delivered_at = hist[k].dmin
    /\ hist[j].dmin = Null /\ message_receipts[j].delivered_at = Null
    /\ hist[j].rmin # Null

(***************************************************************************)
(* Session registry.  Requests to the ChatServer actor are records         *)
(* [kind, user, addr, payload, from, by]: user is Connect/Disconnect's     *)
(* user_id or Deliver/Private's to; addr is Connect's sink; by names the   *)
(* session that sent the request (0: not a session), which the actor does  *)
(* not see.                                                                *)
(***************************************************************************)
ConnectMsg(u, s)    == [kind |-> "Connect", user |-> u, addr |-> s, payload |-> 0, from |-> "none", by |-> s, id |-> 0]
DisconnectMsg(u, s) == [kind |-> "Disconnect", user |-> u, addr |-> 0, payload |-> 0, from |-> "none", by |-> s, id |-> 0]
DeliverMessage(to, payload, id) ==
  [kind |-> "Deliver", user |-> to, addr |-> 0, payload |-> payload, from |-> "none", by |-> 0, id |-> id]
\* The fan-out's DeliverMessage: the envelope as payload, under the envelope's id.
DeliverMsg(to, id)  == DeliverMessage(to, id, id)
PrivateMessage(f, to, content, s) ==
  [kind |-> "Private", user |-> to, addr |-> 0, payload |-> content, from |-> f, by |-> s, id |-> 0]
PrivateMsg(f, to, s) == PrivateMessage(f, to, 0, s)

\* The principals that open sessions.
SessionUsers == {"alice", "bob"}

ClientPrivateText(s, to, content) ==
  /\ sessions[s].st = "live"
  /\ sent < MaxSent
  /\ sent' = sent + 1
  /\ srMailbox' = Append(srMailbox, PrivateMessage(sessions[s].user, to, content, s))
  /\ UNCHANGED <<queueVars, workerVars, storeVars, receiptVars,
                 users, sessions, sinkq, connLog, routeLog, writeVars>>

\* HashMap::insert(user_id, addr): the entry of user_id is set to addr.
InsertKeepingFirst(map, u, a) == IF u \in DOMAIN map THEN map ELSE Put(map, u, a)
Insert(map, u, a) == Put(map, u, a)

\* A remove that leaves the entry in the map.
RemoveNothing(map, u) == map

\* HashMap::remove(key)
Remove(map, u) == [k \in DOMAIN map \ {u} |-> map[k]]

\* recipient.do_send(ServerMessage): queued on the session's address while
\* the session actor is alive, otherwise an error that the caller discards.
DoSendFront(q, s, frame) ==
  IF sessions[s].st = "live" THEN [q EXCEPT ![s] = <<frame>> \o @] ELSE q

DoSend(q, s, frame) ==
  IF sessions[s].st = "live" THEN [q EXCEPT ![s] = Append(@, frame)] ELSE q

\* ws_route starts a WsSession for the authenticated principal; started()
\* sends Connect with the session's own address.
SessionStarted(s, u) ==
  /\ sessions[s].st = "idle"
  /\ \A o \in Sessions : o < s => sessions[o].st # "idle"
  /\ sessions' = [sessions EXCEPT ![s] = [user |-> u, st |-> "live"]]
  /\ srMailbox' = Append(srMailbox, ConnectMsg(u, s))
  /\ UNCHANGED <<queueVars, workerVars, storeVars, receiptVars,
                 users, sinkq, connLog, routeLog, sent, writeVars>>

\* The session actor stops (close frame, heartbeat timeout, transport end);
\* stopped() sends Disconnect with the user id only.
SessionStopped(s) ==
  /\ sessions[s].st = "live"
  /\ sessions' = [sessions EXCEPT ![s].st = "stopped"]
  /\ srMailbox' = Append(srMailbox, DisconnectMsg(sessions[s].user, s))
  /\ UNCHANGED <<queueVars, workerVars, storeVars, receiptVars,
                 users, sinkq, connLog, routeLog, sent, writeVars>>

\* The registry handled a request addressed to msg.user: the log gains its
\* payload and the session whose address took it (0: none did).
Routed(log, msg) ==
  [log EXCEPT ![msg.user] =
     Append(@, [payload |-> msg.payload,
                to |-> IF msg.user \in DOMAIN users /\ sessions[users[msg.user]].st = "live"
                       THEN users[msg.user] ELSE 0])]

\* A live session reads a text frame {"type": "private", to, content}.
ClientPrivate(s, to) == ClientPrivateText(s, to, 0)

\* The write path's fan-out sends one DeliverMessage.
Dispatch(to, id) ==
  /\ sent < MaxSent
  /\ sent' = sent + 1
  /\ srMailbox' = Append(srMailbox, DeliverMsg(to, id))
  /\ UNCHANGED <<queueVars, workerVars, storeVars, receiptVars,
                 users, sessions, sinkq, connLog, routeLog, writeVars>>

\* The actor takes the requests of its mailbox one at a time, in order.
HandleConnect ==
  /\ srMailbox # <<>>
  /\ Head(srMailbox).kind = "Connect"
  /\ LET msg == Head(srMailbox)
     IN /\ users' = Insert(users, msg.user, msg.addr)
        /\ connLog' = [connLog EXCEPT ![msg.user] = Append(@, msg.addr)]
  /\ srMailbox' = Tail(srMailbox)
  /\ UNCHANGED <<queueVars, workerVars, storeVars, receiptVars,
                 sessions, sinkq, routeLog, sent, writeVars>>

HandleDisconnect ==
  /\ srMailbox # <<>>
  /\ Head(srMailbox).kind = "Disconnect"
  /\ users' = Remove(users, Head(srMailbox).user)
  /\ srMailbox' = Tail(srMailbox)
  /\ UNCHANGED <<queueVars, workerVars, storeVars, receiptVars,
                 sessions, sinkq, connLog, routeLog, sent, writeVars>>

HandlePrivate ==
  /\ srMailbox # <<>>
  /\ Head(srMailbox).kind = "Private"
  /\ LET msg == Head(srMailbox)
     IN sinkq' = IF msg.user \in DOMAIN users
                 THEN DoSend(sinkq, users[msg.user],
                             [kind |-> "private", from |-> msg.from, payload |-> msg.payload, id |-> 0])
                 ELSE sinkq
  /\ routeLog' = Routed(routeLog, Head(srMailbox))
  /\ srMailbox' = Tail(srMailbox)
  /\ UNCHANGED <<queueVars, workerVars, storeVars, receiptVars,
                 users, sessions, connLog, sent, writeVars>>

HandleDeliver ==
  /\ srMailbox # <<>>
  /\ Head(srMailbox).kind = "Deliver"
  /\ LET msg == Head(srMailbox)
     IN sinkq' = IF msg.user \in DOMAIN users
                 THEN DoSend(sinkq, users[msg.user],
                             [kind |-> "message", from |-> "none", payload |-> msg.payload, id |-> msg.id])
                 ELSE sinkq
  /\ routeLog' = Routed(routeLog, Head(srMailbox))
  /\ srMailbox' = Tail(srMailbox)
  /\ UNCHANGED <<queueVars, workerVars, storeVars, receiptVars,
                 users, sessions, connLog, sent, writeVars>>

NextRegistry ==
  \/ \E s \in Sessions, u \in SessionUsers : SessionStarted(s, u)
  \/ \E s \in Sessions : SessionStopped(s)
  \/ \E s \in Sessions, to \in SessionUsers : ClientPrivate(s, to)
  \/ \E to \in SessionUsers : Dispatch(to, 1)
  \/ HandleConnect
  \/ HandleDisconnect
  \/ HandlePrivate
  \/ HandleDeliver

SpecRegistry == Init /\ [][NextRegistry]_vars

\* C9: compare-and-delete disconnect. The registry entry of a principal is
\* removed only by the Disconnect of the session whose sink the entry holds;
\* the Disconnect of an older session of the principal leaves the entry of
\* the session that connected after it.
C9_CompareAndDelete ==
  [][\A p \in Principals :
       (p \in DOMAIN users /\ p \notin DOMAIN users')
         => (srMailbox # <<>> /\ Head(srMailbox).kind = "Disconnect"
             /\ Head(srMailbox).by = users[p])]_vars

ParticipantLimit == 1000

Range(seq) == {seq[i] : i \in 1..Len(seq)}

\* Participant::insert: one row per (conversation, participant); the error
\* of a repeated pair is discarded.
ParticipantInsert(c, u) ==
  /\ participants' = [participants EXCEPT
                        ![c] = IF u \in Range(@) THEN @ ELSE Append(@, u)]
  /\ UNCHANGED <<queueVars, workerVars, messages, message_receipts,
                 receiptVars, registryVars, srMailbox, writeVars>>

\* Participant::retrieve(db, conversation, limit, offset)
retrieve(table, c, limit, offset) ==
  SubSeq(table[c], offset + 1, Min(Len(table[c]), offset + limit))

\* The participant cache, key -> value with a per-entry TTL: get serves an
\* entry that is present and unexpired, stores the fallback's result on a
\* miss, and an entry goes when its TTL runs out.
CacheHit(c) == c \in DOMAIN pcache

CacheStore(cache, c, v) == Put(cache, c, v)

CacheExpire(c) ==
  /\ c \in DOMAIN pcache
  /\ pcache' = Remove(pcache, c)
  /\ UNCHANGED <<queueVars, workerVars, storeVars, receiptVars,
                 registryVars, srMailbox, req, msgChan, httpVars>>

\* The handler is entered for an authenticated principal and a path.
BeginPost(r, u, c) ==
  /\ req[r].pc = "idle"
  /\ \A o \in Requests : o < r => req[o].pc # "idle"
  /\ req' = [req EXCEPT ![r] = [@ EXCEPT !.pc = "lookup", !.user = u, !.conv = c]]
  /\ UNCHANGED <<queueVars, workerVars, storeVars, receiptVars,
                 registryVars, srMailbox, pcache, msgChan, httpVars>>

\* PARTICIPANTS_CACHE.get(name, fallback): the cached list, or the list the
\* store returns, which is then cached; a failed fallback is not cached and
\* the handler panics on it.
PostLookup(r) ==
  /\ req[r].pc = "lookup"
  /\ LET c == req[r].conv
     IN IF CacheHit(c)
        THEN /\ req' = [req EXCEPT ![r] = [@ EXCEPT !.pc = "check", !.plist = pcache[c]]]
             /\ UNCHANGED pcache
        ELSE \E dbok \in BOOLEAN :
               IF dbok
               THEN LET found == retrieve(participants, c, ParticipantLimit, 0)
                    IN /\ pcache' = CacheStore(pcache, c, found)
                       /\ req' = [req EXCEPT ![r] = [@ EXCEPT !.pc = "check", !.plist = found]]
               ELSE /\ req' = [req EXCEPT ![r].pc = "panicked"]
                    /\ UNCHANGED pcache
  /\ UNCHANGED <<queueVars, workerVars, storeVars, receiptVars,
                 registryVars, srMailbox, msgChan, httpVars>>

\* participants.iter().any(|p| p.participant == claims.username)
IsParticipantOfAny(plist, u) == plist # <<>>
IsParticipant(plist, u) == \E i \in 1..Len(plist) : plist[i] = u

\* participants mapped to their names, the source filtered out
FanOutTargetsAll(plist, source) == plist
FanOutTargets(plist, source) == SelectSeq(plist, LAMBDA p : p # source)

InsertMessage(r) == [id |-> r, source |-> req[r].user, mbox |-> req[r].conv]

\* The request once the fan-out task is spawned with its targets; the task
\* is over when it has no target left.
Spawned(q) ==
  LET ids == FanOutTargets(q.plist, q.user)
  IN [q EXCEPT !.pc = IF ids = <<>> THEN "done" ELSE "accepted", !.targets = ids]

\* The check, the stamping of the envelope, its hand-off to the message
\* worker's channel (the result of send is discarded), the spawn of the
\* fan-out task and the response.
PostCheckSendFirst(r) ==
  /\ req[r].pc = "check"
  /\ msgChan' = Append(msgChan, InsertMessage(r))
  /\ IF ~IsParticipant(req[r].plist, req[r].user)
     THEN req' = [req EXCEPT ![r].pc = "forbidden"]
     ELSE req' = [req EXCEPT ![r] = Spawned(@)]
  /\ UNCHANGED <<queueVars, workerVars, storeVars, receiptVars,
                 registryVars, srMailbox, pcache, httpVars>>

PostCheck(r) ==
  /\ req[r].pc = "check"
  /\ IF ~IsParticipant(req[r].plist, req[r].user)
     THEN /\ req' = [req EXCEPT ![r].pc = "forbidden"]
          /\ UNCHANGED msgChan
     ELSE /\ \E sendok \in BOOLEAN :
               msgChan' = IF sendok THEN Append(msgChan, InsertMessage(r)) ELSE msgChan
          /\ req' = [req EXCEPT ![r] = Spawned(@)]
  /\ UNCHANGED <<queueVars, workerVars, storeVars, receiptVars,
                 registryVars, srMailbox, pcache, httpVars>>

\* deliver_message: bus.do_send(DeliverMessage) for each target in turn.
PostFanOut(r) ==
  /\ req[r].pc = "accepted"
  /\ srMailbox' = Append(srMailbox, DeliverMsg(Head(req[r].targets), r))
  /\ req' = [req EXCEPT ![r] = [@ EXCEPT !.targets = Tail(@),
                 !.pc = IF Tail(req[r].targets) = <<>> THEN "done" ELSE "accepted"]]
  /\ UNCHANGED <<queueVars, workerVars, storeVars, receiptVars,
                 registryVars, pcache, msgChan, httpVars>>

\* The subjects offered for insertion: one already in the conversation, or
\* the first principal of JoinOrder that is not.
JoinOrder == <<"alice", "bob", "carol">>

Subjects(c) ==
  Range(participants[c]) \cup
    {JoinOrder[i] : i \in {j \in 1..Len(JoinOrder) : j = Len(participants[c]) + 1}}

NextWrite ==
  \/ \E c \in Convs : \E u \in Subjects(c) : ParticipantInsert(c, u)
  \/ \E c \in Convs : CacheExpire(c)
  \/ \E r \in Requests, u \in Principals, c \in Convs : BeginPost(r, u, c)
  \/ \E r \in Requests : PostLookup(r)
  \/ \E r \in Requests : PostCheck(r)
  \/ \E r \in Requests : PostFanOut(r)

SpecWrite == Init /\ [][NextWrite]_vars

\* The principals a DeliverMessage carrying request r's envelope is queued for.
Addressed(r) ==
  {srMailbox[i].user : i \in {j \in 1..Len(srMailbox) :
                                srMailbox[j].kind = "Deliver" /\ srMailbox[j].payload = r}}

DeliverCount(r) ==
  Cardinality({j \in 1..Len(srMailbox) :
                 srMailbox[j].kind = "Deliver" /\ srMailbox[j].payload = r})

\* C3: participation gate. Every accepted post (answered OK, its envelope
\* handed to the messages topic) was made by a principal that is a member of
\* the participant list the cache lookup returned for that request.
C3_ParticipationGate ==
  /\ \A r \in Requests :
       req[r].pc \in {"accepted", "done"} => req[r].user \in Range(req[r].plist)
  /\ \A i \in 1..Len(msgChan) :
       /\ req[msgChan[i].id].pc \in {"accepted", "done"}
       /\ msgChan[i].source = req[msgChan[i].id].user
       /\ msgChan[i].source \in Range(req[msgChan[i].id].plist)

\* One request was accepted with its envelope handed over while another, by
\* a principal outside the looked-up list, was refused.
C3_Witness ==
  \E r, o \in Requests :
    /\ req[r].pc = "done"
    /\ \E i \in 1..Len(msgChan) : msgChan[i].id = r
    /\ req[o].pc = "forbidden"
    /\ req[o].plist # <<>>

\* C4: a post by a principal that is not a participant of the conversation is
\* answered 403 by the check, and that step changes nothing but the request:
\* no envelope is handed to the messages topic, no row is added to messages
\* and no DeliverMessage is sent to the session registry.
C4_NonParticipantRejected ==
  [][\A r \in Requests :
       (/\ req[r].pc = "check"
        /\ req[r].user \notin Range(participants[req[r].conv])
        /\ req'[r].pc # "check")
       => /\ req'[r].pc = "forbidden"
          /\ UNCHANGED <<msgChan, srMailbox, storeVars, queueVars, pcache>>]_vars

\* A non-participant of a conversation that has participants was refused, and
\* nothing carries its envelope.
C4_Witness ==
  \E r \in Requests :
    /\ req[r].pc = "forbidden"
    /\ participants[req[r].conv] # <<>>
    /\ req[r].user \notin Range(participants[req[r].conv])
    /\ \A i \in 1..Len(msgChan) : msgChan[i].id # r
    /\ Addressed(r) = {}

\* C5: fan-out restriction. Once the fan-out of an accepted post has run, the
\* principals a DeliverMessage was dispatched to are exactly the looked-up
\* participants other than the poster, each addressed once: never the poster,
\* never a principal outside the conversation's participants.
C5_FanOutRestriction ==
  \A r \in Requests :
    /\ req[r].pc = "done" =>
         /\ Addressed(r) = Range(req[r].plist) \ {req[r].user}
         /\ DeliverCount(r) = Cardinality(Addressed(r))
    /\ req[r].pc = "accepted" =>
         Addressed(r) \cup Range(req[r].targets) = Range(req[r].plist) \ {req[r].user}
    /\ req[r].pc \notin {"accepted", "done"} => Addressed(r) = {}
    /\ req[r].user \notin Addressed(r)
    /\ req[r].conv \in Convs => Addressed(r) \subseteq Range(participants[req[r].conv])

\* A post to a conversation of three was fanned out to the two others.
C5_Witness ==
  \E r \in Requests :
    /\ req[r].pc = "done"
    /\ Cardinality(Range(req[r].plist)) = 3
    /\ Cardinality(Addressed(r)) = 2

\* C11: a Connect handled while the registry holds another sink for the
\* principal replaces that sink and closes the session behind it: once the
\* Connect is handled the replaced session is no longer live.
C11_PriorSinkClosed ==
  [][\A p \in Principals :
       (p \in DOMAIN users /\ p \in DOMAIN users' /\ users'[p] # users[p])
         => sessions'[users[p]].st # "live"]_vars

(***************************************************************************)
(* stream_worker on messages_stream with the message handler.  One loop    *)
(* iteration is a pending read, a read of new entries when nothing was     *)
(* pending, the deserialization with the handler call, and the XACK of the *)
(* ids the handler returned.                                               *)
(***************************************************************************)
\* The n smallest elements of a set of entry ids, in increasing order.
FirstIdsNewestFirst(S, n) ==
  [i \in 1..Min(n, Cardinality(S)) |->
     CHOOSE x \in S : Cardinality({y \in S : y > x}) = i - 1]

FirstIds(S, n) ==
  [i \in 1..Min(n, Cardinality(S)) |->
     CHOOSE x \in S : Cardinality({y \in S : y < x}) = i - 1]

\* A pending read that always comes back empty.
PendingEntriesNone == <<>>

\* XREADGROUP ... COUNT 100 STREAMS <stream> 0: the entries pending for the
\* consumer, oldest first, at most COUNT.
PendingEntries ==
  LET ids == FirstIds(pel, BatchMax)
  IN [k \in 1..Len(ids) |-> [eid |-> ids[k], payload |-> stream[ids[k]]]]

\* XREADGROUP ... COUNT 100 STREAMS <stream> >: the never-delivered entries.
NewEntries ==
  [k \in 1..Min(BatchMax, Len(stream) - lastDelivered) |->
     [eid |-> lastDelivered + k, payload |-> stream[lastDelivered + k]]]

EidsOf(entries) == {entries[k].eid : k \in 1..Len(entries)}

\* The deserialization loop: the entries whose payload parses, in order.
Deserialized(entries) == SelectSeq(entries, LAMBDA e : e.payload.wellformed)

\* The message handler: the envelopes go to insert_many; all entry ids on
\* success, none on failure (psok: the store is reachable).
message_handler(table, batch, psok) ==
  LET res == insert_many(table, [k \in 1..Len(batch) |-> batch[k].payload])
  IN IF psok /\ res.ok
     THEN [ack |-> EidsOf(batch), table |-> res.table]
     ELSE [ack |-> {}, table |-> table]

\* XACK <stream> <group> ids
XackRead(pending, ids) == pending \ EidsOf(bentries)
Xack(pending, ids) == pending \ ids

BwReadPending ==
  /\ bpc = "pending"
  /\ bentries' = PendingEntries
  /\ bpc' = IF PendingEntries = <<>> THEN "new" ELSE "process"
  /\ UNCHANGED <<queueVars, sideVars, wpc, wbatch, crashes, processed, ackIds, handed,
                 storeVars, receiptVars, registryVars, srMailbox, writeVars>>

\* An empty reply (the block timed out) sleeps and starts the loop again.
BwReadNew ==
  /\ bpc = "new"
  /\ bentries' = NewEntries
  /\ pel' = pel \cup EidsOf(NewEntries)
  /\ lastDelivered' = lastDelivered + Len(NewEntries)
  /\ bpc' = IF NewEntries = <<>> THEN "pending" ELSE "process"
  /\ UNCHANGED <<stream, sideVars, wpc, wbatch, crashes, processed, ackIds, handed,
                 storeVars, receiptVars, registryVars, srMailbox, writeVars>>

\* Malformed payloads are logged and left out of the batch; an empty batch
\* goes straight to the next iteration, an empty ack set skips the XACK.
\* psok: the store is reachable when the handler runs.
BwProcessWith(psok) ==
  /\ bpc = "process"
  /\ LET batch == Deserialized(bentries)
     IN IF batch = <<>>
        THEN /\ bpc' = "pending"
             /\ UNCHANGED <<ackIds, handed, messages>>
        ELSE LET out == message_handler(messages, batch, psok)
             IN /\ messages' = out.table
                /\ ackIds' = out.ack
                /\ handed' = [n \in DOMAIN handed |->
                                IF n \in EidsOf(batch)
                                THEN (IF handed[n] = 0 THEN 1 ELSE 2)
                                ELSE handed[n]]
                /\ bpc' = IF out.ack = {} THEN "pending" ELSE "ack"
  /\ UNCHANGED <<queueVars, sideVars, wpc, wbatch, crashes, processed, bentries,
                 message_receipts, participants, receiptVars, registryVars,
                 srMailbox, writeVars>>

BwProcess == \E psok \in BOOLEAN : BwProcessWith(psok)

\* A failed XACK (ok = FALSE) is printed and the loop goes on.
BwAckWith(ok) ==
  /\ bpc = "ack"
  /\ pel' = IF ok THEN Xack(pel, ackIds) ELSE pel
  /\ bpc' = "pending"
  /\ ackIds' = {}
  /\ UNCHANGED <<stream, lastDelivered, sideVars, wpc, wbatch, crashes, processed,
                 bentries, handed, storeVars, receiptVars, registryVars,
                 srMailbox, writeVars>>

BwAck == \E ok \in BOOLEAN : BwAckWith(ok)

BwCrash ==
  /\ bpc # "down"
  /\ crashes < MaxCrash
  /\ crashes' = crashes + 1
  /\ bpc' = "down"
  /\ bentries' = <<>>
  /\ ackIds' = {}
  /\ UNCHANGED <<queueVars, sideVars, wpc, wbatch, processed, handed, storeVars,
                 receiptVars, registryVars, srMailbox, writeVars>>

\* The worker is started again on the same group and consumer name.
BwRestart ==
  /\ bpc = "down"
  /\ bpc' = "pending"
  /\ UNCHANGED <<queueVars, sideVars, wpc, wbatch, crashes, processed, bentries, ackIds,
                 handed, storeVars, receiptVars, registryVars, srMailbox,
                 writeVars>>

NextBatch ==
  \/ \E p \in Envelopes \cup {Malformed} : Publish(p)
  \/ BwReadPending
  \/ BwReadNew
  \/ BwProcess
  \/ BwAck
  \/ BwCrash
  \/ BwRestart

SpecBatch == Init /\ [][NextBatch]_vars

\* The worker is scheduled whenever it can step; a dead worker is restarted.
FairSpecBatch ==
  /\ Init
  /\ [][NextBatch]_vars
  /\ WF_vars(BwReadPending)
  /\ WF_vars(BwReadNew)
  /\ WF_vars(BwProcess)
  /\ WF_vars(BwAck)
  /\ WF_vars(BwRestart)

\* The entries acknowledged for the group: delivered and no longer pending.
Acked == (1..lastDelivered) \ pel

\* C12: poison-pill policy. A malformed entry the worker has read does not
\* stay in the consumer's pending set, and every well-formed entry of the
\* stream is eventually handed to the handler, whatever was published before.
C12_PoisonPillAcked ==
  /\ \A n \in 1..MaxStream :
       (n \in pel /\ ~stream[n].wellformed) ~> (n \notin pel)
  /\ \A n \in 1..MaxStream :
       (n <= Len(stream) /\ stream[n].wellformed) ~> (handed[n] >= 1)

\* C13: an entry leaves the pending set only through the XACK of an id the
\* handler returned, and an entry that was handed to the handler and is
\* still pending when the iteration is over is handed to it again on a later
\* pending pass.
C13_UnackedRedelivered ==
  /\ [][(pel \ pel') # {} => (bpc = "ack" /\ (pel \ pel') \subseteq ackIds)]_vars
  /\ \A n \in 1..MaxStream :
       (n \in pel /\ handed[n] = 1 /\ bpc = "pending") ~> (handed[n] = 2)

\* An entry the handler did not return the first time (nothing was inserted)
\* was handed to it again, inserted and acknowledged.
C13_Witness ==
  \E n \in 1..MaxStream :
    /\ n <= lastDelivered
    /\ handed[n] = 2
    /\ n \notin pel
    /\ crashes = 0

\* Message::retrieve(db, mbox, filters) with no filter set.
MessageLimit == 1000

MessageRetrieve(table, mbox, limit, offset) ==
  LET rows == SelectSeq(table, LAMBDA row : row.mbox = mbox)
  IN SubSeq(rows, offset + 1, Min(Len(rows), offset + limit))

\* C15: acked implies persisted. Every entry acknowledged for the worker's
\* group has its envelope in the messages table, and a fetch of its mailbox
\* returns it.
C15_AckedImpliesPersisted ==
  \A n \in Acked :
    /\ stream[n].wellformed
    /\ Persisted(stream[n].id)
    /\ stream[n].id \in IdsOf(MessageRetrieve(messages, stream[n].mbox, MessageLimit, 0))

\* Two entries are acknowledged while a third, read with them or after them,
\* is still pending.
C15_Witness ==
  /\ Cardinality(Acked) >= 2
  /\ pel # {}
  /\ Len(messages) >= 2

\* C14: a post whose envelope could not be published is rejected (503): it is
\* not answered OK and no DeliverMessage carries its envelope. Equivalently,
\* every post answered OK or fanned out has its envelope handed over.
C14_PublishFailureRejected ==
  \A r \in Requests :
    (req[r].pc \in {"accepted", "done"} \/ Addressed(r) # {})
      => \E i \in 1..Len(msgChan) : msgChan[i].id = r

(***************************************************************************)
(* Peer inbox post and online delivery.  Uuid(n, k) is the k-th uuid the   *)
(* n-th request generates: distinct requests and distinct k give distinct  *)
(* values, none equal to 0.                                                *)
(***************************************************************************)
Uuid(n, k) == 2 * (n - 1) + k

\* The mailbox ids create_default_mbox generates, in the order it does.
BoxIdSeq == <<"b1", "b2">>
BoxIds == Range(BoxIdSeq)
FreshBoxIds == {BoxIdSeq[i] : i \in {j \in 1..Len(BoxIdSeq) : j = Cardinality(DOMAIN issued) + 1}}

\* Box::insert: INSERT INTO boxes (id, owner, kind) ... RETURNING title, name,
\* admin, created. The table has no column name, admin or created, so the
\* statement is refused and no row is stored.
box_insert(table, row) == [ok |-> FALSE, table |-> table]

OwnedBoxes(u) == SelectSeq(boxes, LAMBDA row : row.owner = u)

MboxOutcomes == [ok : BOOLEAN, id : BoxIds \cup {"none"}]

\* get_default_mbox(db, owner) with outcome out: the cached id; else the id
\* of the owner's row in boxes; else a fresh id from create_default_mbox,
\* whose insert result is discarded; the id found is cached. A store error
\* other than RowNotFound is the outcome not ok, and is not cached.
get_default_mbox(u, out) ==
  IF u \in DOMAIN mcache
  THEN /\ out = [ok |-> TRUE, id |-> mcache[u]]
       /\ UNCHANGED <<mcache, issued, boxes>>
  ELSE \/ /\ out = [ok |-> FALSE, id |-> "none"]
          /\ UNCHANGED <<mcache, issued, boxes>>
       \/ /\ OwnedBoxes(u) # <<>>
          /\ out = [ok |-> TRUE, id |-> Head(OwnedBoxes(u)).id]
          /\ mcache' = Put(mcache, u, out.id)
          /\ UNCHANGED <<issued, boxes>>
       \/ /\ OwnedBoxes(u) = <<>>
          /\ out.ok
          /\ out.id \in FreshBoxIds
          /\ issued' = Put(issued, out.id, u)
          /\ boxes' = box_insert(boxes, [id |-> out.id, owner |-> u]).table
          /\ mcache' = Put(mcache, u, out.id)

Response(k, u, t, st, rows) ==
  [n |-> http + 1, kind |-> k, user |-> u, target |-> t, status |-> st, rows |-> rows]

\* The response of an endpoint that starts with is_participant or is_sender;
\* dbok is history: whether the query of that check went through.
AuthResponse(k, u, t, st, rows, dbok) ==
  [n |-> http + 1, kind |-> k, user |-> u, target |-> t, status |-> st, rows |-> rows,
   dbok |-> dbok]

\* POST /inbox/{peer}/messages
peer_message(u, peer) ==
  /\ http < MaxPeer
  /\ http' = http + 1
  /\ \E out \in MboxOutcomes :
       /\ get_default_mbox(peer, out)
       /\ IF ~out.ok
          THEN /\ resp' = Response("peer_message", u, peer, 500, <<>>)
               /\ UNCHANGED <<msgChan, srMailbox>>
          ELSE LET msg == [id |-> Uuid(http + 1, 1), source |-> u, mbox |-> out.id]
               IN /\ \E sendok \in BOOLEAN :
                       msgChan' = IF sendok THEN Append(msgChan, msg) ELSE msgChan
                  /\ srMailbox' = Append(srMailbox,
                                         DeliverMessage(peer, msg.id, Uuid(http + 1, 2)))
                  /\ resp' = Response("peer_message", u, peer, 200, <<>>)
  /\ UNCHANGED <<queueVars, workerVars, storeVars, receiptVars, registryVars,
                 pcache, req, receipts_stream, wire>>

\* The delivery receipt a session builds for a ServerMessage.
DeliveryReceipt(id, u) ==
  [message |-> id, user |-> u, delivered |-> TRUE, read |-> FALSE, reaction |-> Null]

\* Handler<ServerMessage> for WsSession: the payload is written as a text
\* frame and a task publishes the delivery receipt for (msg.id, user) with
\* XADD receipts_stream; the task gives up silently without a connection.
\* A written frame is recorded with the receipt built for it.
SessionReceive(s) ==
  /\ sessions[s].st = "live"
  /\ sinkq[s] # <<>>
  /\ LET frame == Head(sinkq[s])
         receipt == DeliveryReceipt(frame.id, sessions[s].user)
     IN /\ wire' = [wire EXCEPT ![s] = Append(@, [kind |-> frame.kind,
                                                  payload |-> frame.payload,
                                                  receipt |-> receipt])]
        /\ \E ok \in BOOLEAN :
             receipts_stream' = IF ok THEN Append(receipts_stream, receipt)
                                      ELSE receipts_stream
  /\ sinkq' = [sinkq EXCEPT ![s] = Tail(@)]
  /\ UNCHANGED <<queueVars, workerVars, storeVars, receiptVars, users, sessions,
                 connLog, routeLog, sent, srMailbox, pcache, req, msgChan, mcache, issued,
                 boxes, resp, http>>

\* The principals that post to an inbox.
PeerSenders == {"carol"}

NextDeliver ==
  \/ \E s \in Sessions, u \in SessionUsers : SessionStarted(s, u)
  \/ \E s \in Sessions : SessionStopped(s)
  \/ HandleConnect
  \/ HandleDisconnect
  \/ HandleDeliver
  \/ \E u \in PeerSenders, peer \in SessionUsers : peer_message(u, peer)
  \/ \E s \in Sessions : SessionReceive(s)

SpecDeliver == Init /\ [][NextDeliver]_vars

\* C16: online delivery receipt carries the envelope id. For every envelope
\* frame written to a recipient's session, the delivery receipt built for it
\* is {message: the envelope's id, user: the recipient, delivered: true}.
C16_DeliveryReceiptId ==
  \A s \in Sessions : \A k \in 1..Len(wire[s]) :
    wire[s][k].kind = "message" =>
      /\ wire[s][k].receipt.message = wire[s][k].payload
      /\ wire[s][k].receipt.user = sessions[s].user
      /\ wire[s][k].receipt.delivered

(***************************************************************************)
(* Read and receipt endpoints.  Each request is served in one step.        *)
(***************************************************************************)
FetchUsers == {"alice", "bob"}
FetchMsgIds == {"m1", "m2"}
FetchMboxes == Convs \cup {BoxIdSeq[1]}

\* A row of messages with the columns the read endpoints look at.
StoredMessage(i, b, u) == [wellformed |-> TRUE, id |-> i, mbox |-> b, source |-> u]
StoredMessages == {StoredMessage(i, b, u) : i \in FetchMsgIds, b \in FetchMboxes, u \in FetchUsers}

\* The message worker persists an envelope.
StoreMessage(m) ==
  /\ insert_many(messages, <<m>>).ok
  /\ messages' = insert_many(messages, <<m>>).table
  /\ UNCHANGED <<queueVars, workerVars, message_receipts, participants,
                 receiptVars, registryVars, srMailbox, writeVars>>

\* is_participant / is_sender: SELECT EXISTS(...), a store error read as false.
is_participant_any(c, u, dbok) == dbok
\* The check with unwrap_or(true): a store error read as true.
is_participant_open(c, u, dbok) ==
  ~dbok \/ (c \in DOMAIN participants /\ u \in Range(participants[c]))
is_participant(c, u, dbok) ==
  dbok /\ c \in DOMAIN participants /\ u \in Range(participants[c])

is_sender_any(m, u, dbok) == dbok /\ \E k \in 1..Len(messages) : messages[k].id = m
is_sender(m, u, dbok) ==
  dbok /\ \E k \in 1..Len(messages) : messages[k].id = m /\ messages[k].source = u

\* The receipts a fetch sends to the receipt worker: one per returned message.
FetchReceiptsRead(rows, u) ==
  [k \in 1..Len(rows) |-> [DeliveryReceipt(rows[k].id, u) EXCEPT !.read = TRUE]]
FetchReceipts(rows, u) ==
  [k \in 1..Len(rows) |-> DeliveryReceipt(rows[k].id, u)]

\* GET /conversations/{name}/messages
get_messages(u, name, limit) ==
  /\ http < MaxHttp
  /\ http' = http + 1
  /\ \E dbok, rok \in BOOLEAN :
       IF ~is_participant(name, u, dbok)
       THEN /\ resp' = AuthResponse("get_messages", u, name, 403, <<>>, dbok)
            /\ UNCHANGED receipts_stream
       ELSE IF ~rok
       THEN /\ resp' = AuthResponse("get_messages", u, name, 500, <<>>, dbok)
            /\ UNCHANGED receipts_stream
       ELSE LET rows == MessageRetrieve(messages, name, limit, 0)
            IN /\ receipts_stream' = receipts_stream \o FetchReceipts(rows, u)
               /\ resp' = AuthResponse("get_messages", u, name, 200, rows, dbok)
  /\ UNCHANGED <<queueVars, workerVars, storeVars, receiptVars, registryVars,
                 srMailbox, pcache, req, msgChan, mcache, issued, boxes, wire>>

\* GET /inbox/messages
get_pmessages(u, limit) ==
  /\ http < MaxHttp
  /\ http' = http + 1
  /\ \E out \in MboxOutcomes, rok \in BOOLEAN :
       /\ get_default_mbox(u, out)
       /\ IF ~out.ok
          THEN /\ resp' = Response("get_pmessages", u, "none", 200, <<>>)
               /\ UNCHANGED receipts_stream
          ELSE IF ~rok
          THEN /\ resp' = Response("get_pmessages", u, out.id, 500, <<>>)
               /\ UNCHANGED receipts_stream
          ELSE LET rows == MessageRetrieve(messages, out.id, limit, 0)
               IN /\ receipts_stream' = receipts_stream \o FetchReceipts(rows, u)
                  /\ resp' = Response("get_pmessages", u, out.id, 200, rows)
  /\ UNCHANGED <<queueVars, workerVars, storeVars, receiptVars, registryVars,
                 srMailbox, pcache, req, msgChan, wire>>

\* MessageReceipt::retrieve(db, msg)
ReceiptsOf(m) ==
  {[message |-> k[1], user |-> k[2],
    delivered_at |-> message_receipts[k].delivered_at,
    read_at |-> message_receipts[k].read_at,
    reaction |-> message_receipts[k].reaction] :
     k \in {j \in DOMAIN message_receipts : j[1] = m}}

\* GET /messages/{msg}/receipts
get_receipts(u, m) ==
  /\ http < MaxHttp
  /\ http' = http + 1
  /\ \E dbok, rok \in BOOLEAN :
       resp' = IF ~is_sender(m, u, dbok) THEN AuthResponse("get_receipts", u, m, 404, {}, dbok)
               ELSE IF ~rok THEN AuthResponse("get_receipts", u, m, 500, {}, dbok)
               ELSE AuthResponse("get_receipts", u, m, 200, ReceiptsOf(m), dbok)
  /\ UNCHANGED <<queueVars, workerVars, storeVars, receiptVars, registryVars,
                 srMailbox, pcache, req, msgChan, mcache, issued, boxes,
                 receipts_stream, wire>>

\* GET /messages/{msg}/react/{reaction}
react(u, m, reaction) ==
  /\ http < MaxHttp
  /\ http' = http + 1
  /\ receipts_stream' = Append(receipts_stream,
        [message |-> m, user |-> u, delivered |-> FALSE, read |-> FALSE,
         reaction |-> reaction])
  /\ resp' = Response("react", u, m, 200, <<>>)
  /\ UNCHANGED <<queueVars, workerVars, storeVars, receiptVars, registryVars,
                 srMailbox, pcache, req, msgChan, mcache, issued, boxes, wire>>

\* GET /messages/{msg}/mark_as_read
mark_as_read(u, m) ==
  /\ http < MaxHttp
  /\ http' = http + 1
  /\ receipts_stream' = Append(receipts_stream,
        [message |-> m, user |-> u, delivered |-> FALSE, read |-> FALSE,
         reaction |-> Null])
  /\ resp' = Response("mark_as_read", u, m, 200, <<>>)
  /\ UNCHANGED <<queueVars, workerVars, storeVars, receiptVars, registryVars,
                 srMailbox, pcache, req, msgChan, mcache, issued, boxes, wire>>

\* The receipt worker applies an event of the receipts topic (an event may be
\* applied again: delivery is at least once).
ReceiptWorkerStep ==
  \E i \in 1..Len(receipts_stream) : ReceiptUpsert(receipts_stream[i])

\* A mailbox cache entry expires.
MboxExpire(u) ==
  /\ u \in DOMAIN mcache
  /\ mcache' = Remove(mcache, u)
  /\ UNCHANGED <<queueVars, workerVars, storeVars, receiptVars, registryVars,
                 srMailbox, pcache, req, msgChan, issued, boxes, receipts_stream,
                 resp, http, wire>>

\* SpecFetch: the two fetch endpoints over a store that gains messages and
\* participants.
NextFetch ==
  \/ \E m \in StoredMessages : StoreMessage(m)
  \/ \E c \in Convs : \E u \in Subjects(c) : ParticipantInsert(c, u)
  \/ \E u \in FetchUsers, name \in FetchMboxes, limit \in {1, MessageLimit} :
       get_messages(u, name, limit)
  \/ \E u \in FetchUsers, limit \in {1, MessageLimit} : get_pmessages(u, limit)
  \/ \E u \in FetchUsers : MboxExpire(u)

SpecFetch == Init /\ [][NextFetch]_vars

\* SpecReceiptApi: react, mark_as_read and get_receipts with the receipt
\* worker, over a store that gains messages.
NextReceiptApi ==
  \/ \E m \in StoredMessages : StoreMessage(m)
  \/ \E u \in FetchUsers, m \in FetchMsgIds : get_receipts(u, m)
  \/ \E u \in FetchUsers, m \in FetchMsgIds, reaction \in Reactions : react(u, m, reaction)
  \/ \E u \in FetchUsers, m \in FetchMsgIds : mark_as_read(u, m)
  \/ ReceiptWorkerStep

SpecReceiptApi == Init /\ [][NextReceiptApi]_vars

FetchKinds == {"get_messages", "get_pmessages"}

C18_MarkAsReadReceipt ==
  /\ resp.kind = "mark_as_read" =>
       /\ receipts_stream # <<>>
       /\ receipts_stream[Len(receipts_stream)] =
            [message |-> resp.target, user |-> resp.user, delivered |-> FALSE,
             read |-> TRUE, reaction |-> Null]
  /\ resp.kind = "react" =>
       /\ receipts_stream # <<>>
       /\ LET e == receipts_stream[Len(receipts_stream)]
          IN /\ e.message = resp.target /\ e.user = resp.user
             /\ ~e.delivered /\ ~e.read /\ e.reaction # Null

\* C19: read authorization. The messages a fetch returns to u all belong to
\* the mailbox asked for, which is a conversation u is a participant of
\* (conversation path; anyone else gets 403 and nothing) or the mailbox
\* generated for u (inbox path).
C19_ReadAuthorization ==
  /\ resp.kind = "get_messages" =>
       /\ resp.user \notin Range(participants[IF resp.target \in Convs
                                              THEN resp.target ELSE "c1"])
            => (resp.status = 403 /\ resp.rows = <<>>)
       /\ resp.target \notin Convs => (resp.status = 403 /\ resp.rows = <<>>)
       /\ \A k \in 1..Len(resp.rows) :
            /\ resp.rows[k].mbox = resp.target
            /\ resp.target \in Convs
            /\ resp.user \in Range(participants[resp.target])
  /\ resp.kind = "get_pmessages" =>
       \A k \in 1..Len(resp.rows) :
         /\ resp.rows[k].mbox = resp.target
         /\ resp.target \in DOMAIN issued
         /\ issued[resp.target] = resp.user

\* A principal was given the messages of its own inbox while the store also
\* holds a message of a conversation it is not a participant of.
C19_Witness ==
  /\ resp.kind = "get_pmessages"
  /\ resp.status = 200
  /\ resp.rows # <<>>
  /\ \E k \in 1..Len(messages) :
       /\ messages[k].mbox \in Convs
       /\ resp.user \notin Range(participants[messages[k].mbox])

\* C20: the receipts of m are returned to u only if u is the source of the
\* stored message m; any other principal, or a message that is not stored,
\* gets 404 and no receipt.
C20_ReceiptsOnlyToSender ==
  resp.kind = "get_receipts" =>
    /\ resp.status = 200 =>
         \E k \in 1..Len(messages) :
           messages[k].id = resp.target /\ messages[k].source = resp.user
    /\ ~(\E k \in 1..Len(messages) :
           messages[k].id = resp.target /\ messages[k].source = resp.user)
         => (resp.status = 404 /\ resp.rows = {})
    /\ \A row \in resp.rows : row.message = resp.target

\* The sender of a message was given its receipts, one of them another
\* principal's.
C20_Witness ==
  /\ resp.kind = "get_receipts"
  /\ resp.status = 200
  /\ \E row \in resp.rows : row.user # resp.user

(***************************************************************************)
(* Cache<T> (libcache.rs): a local HashMap in front of Redis keys written  *)
(* with SET EX ttl.  get checks the local map, then Redis, then awaits the *)
(* fallback and stores its result in both.  Every await is a step, so      *)
(* several tasks may be inside get at once.  The cached values here are    *)
(* participant lists and the fallback is Participant::retrieve.  The field *)
(* at of an entry is history: the time the value was stored by set.        *)
(***************************************************************************)
NotSide == <<queueVars, wpc, wbatch, crashes, processed, batchVars, storeVars,
             receiptVars, registryVars, srMailbox, writeVars>>

CacheOthers == <<NotSide, hbVars, convVars, rwVars>>

\* What a task does with the fallback's result: an Err leaves get by `?`.
AfterFallbackAlways(fok) == "set_local"
AfterFallback(fok) == IF fok THEN "set_local" ELSE "return"

\* A get returns: the task is gone, the result is recorded.
Return(t, ok, err, val, src, at) ==
  /\ gets' = [gets EXCEPT ![t] = NoGet]
  /\ gret' = [n |-> gret.n + 1, key |-> gets[t].key, ok |-> ok, err |-> err,
              val |-> val, src |-> src, at |-> at, time |-> ctime,
              fberrs |-> gret.fberrs + (IF err = "Fallback" THEN 1 ELSE 0)]

\* The Redis key is there: written and not yet expired.
RedisLive(k) == k \in DOMAIN redis /\ ctime < redis[k].exp

\* A task calls cache.get(key, fallback).
BeginGet(t, k) ==
  /\ gets[t].pc = "idle"
  /\ nget < MaxGet
  /\ nget' = nget + 1
  /\ gets' = [gets EXCEPT ![t] = [pc |-> "local", key |-> k, val |-> <<>>, fb |-> "none"]]
  /\ UNCHANGED <<CacheOthers, local, redis, ctime, gret>>

\* 1: if let Some(v) = self.local.read().await.get(key) { return Ok(v) }
GetLocal(t) ==
  /\ gets[t].pc = "local"
  /\ LET k == gets[t].key
     IN IF k \in DOMAIN local
        THEN Return(t, TRUE, "none", local[k].val, "local", local[k].at)
        ELSE /\ gets' = [gets EXCEPT ![t].pc = "redis"]
             /\ UNCHANGED gret
  /\ UNCHANGED <<CacheOthers, local, redis, ctime, nget>>

\* 2: get_async_connection()?, then if let Ok(json) = con.get(key): the value
\* is put in the local map and returned.  A failed GET falls through.
GetRedis(t) ==
  /\ gets[t].pc = "redis"
  /\ LET k == gets[t].key
     IN \E conok, getok \in BOOLEAN :
          IF ~conok
          THEN /\ Return(t, FALSE, "Redis", <<>>, "none", 0)
               /\ UNCHANGED local
          ELSE IF getok /\ RedisLive(k)
          THEN /\ local' = Put(local, k, [val |-> redis[k].val, at |-> redis[k].at])
               /\ Return(t, TRUE, "none", redis[k].val, "redis", redis[k].at)
          ELSE /\ gets' = [gets EXCEPT ![t].pc = "fallback"]
               /\ UNCHANGED <<local, gret>>
  /\ UNCHANGED <<CacheOthers, redis, ctime, nget>>

\* 3: let val = db_fallback().await?
GetFallback(t) ==
  /\ gets[t].pc = "fallback"
  /\ \E fok \in BOOLEAN :
       IF AfterFallback(fok) = "return"
       THEN Return(t, FALSE, "Fallback", <<>>, "none", 0)
       ELSE /\ gets' = [gets EXCEPT ![t] =
                 [@ EXCEPT !.pc = AfterFallback(fok),
                           !.fb = IF fok THEN "ok" ELSE "err",
                           !.val = IF fok THEN retrieve(participants, gets[t].key,
                                                        ParticipantLimit, 0)
                                   ELSE <<>>]]
            /\ UNCHANGED gret
  /\ UNCHANGED <<CacheOthers, local, redis, ctime, nget>>

\* set: self.local.write().await.insert(key, value)
SetLocal(t) ==
  /\ gets[t].pc = "set_local"
  /\ local' = Put(local, gets[t].key, [val |-> gets[t].val, at |-> ctime])
  /\ gets' = [gets EXCEPT ![t].pc = "set_redis"]
  /\ UNCHANGED <<CacheOthers, redis, ctime, gret, nget>>

\* set: get_async_connection()?, con.set_ex(key, json, ttl)?, then Ok(val)
SetRedis(t) ==
  /\ gets[t].pc = "set_redis"
  /\ LET k == gets[t].key
     IN \E conok \in BOOLEAN :
          IF ~conok
          THEN /\ Return(t, FALSE, "Redis", <<>>, "none", 0)
               /\ UNCHANGED redis
          ELSE /\ redis' = Put(redis, k, [val |-> gets[t].val, at |-> ctime,
                                          exp |-> ctime + CacheTTL])
               /\ Return(t, TRUE, "none", gets[t].val, "fallback", ctime)
  /\ UNCHANGED <<CacheOthers, local, ctime, nget>>

\* Time passes.
CacheTick ==
  /\ ctime < MaxCacheClock
  /\ ctime' = ctime + 1
  /\ UNCHANGED <<CacheOthers, local, redis, gets, gret, nget>>

\* SpecCache: tasks calling get for conversations whose participants grow.
NextCache ==
  \/ \E t \in 1..CacheTasks, k \in Convs : BeginGet(t, k)
  \/ \E t \in 1..CacheTasks : GetLocal(t)
  \/ \E t \in 1..CacheTasks : GetRedis(t)
  \/ \E t \in 1..CacheTasks : GetFallback(t)
  \/ \E t \in 1..CacheTasks : SetLocal(t)
  \/ \E t \in 1..CacheTasks : SetRedis(t)
  \/ CacheTick
  \/ \E c \in Convs : \E u \in Subjects(c) : ParticipantInsert(c, u)

SpecCache == Init /\ [][NextCache]_vars

\* C21: staleness is bounded by the TTL. A get returns a value that was stored
\* at time t only while now < t + TTL; at or after that it runs the fallback
\* and returns its fresh result.
C21_StalenessBounded ==
  (gret.n > 0 /\ gret.ok) =>
     \/ gret.src = "fallback"
     \/ gret.time < gret.at + CacheTTL

\* C22: when the fallback returns an error, get returns that error and leaves
\* the local map and the Redis keys as they were.
C22_NegativeNotCached ==
  [][\A t \in 1..CacheTasks :
       (gets[t].pc = "fallback" /\ gets'[t].pc # "fallback" /\ gets'[t].fb # "ok")
       => /\ gets'[t].pc = "idle"
          /\ gret'.n = gret.n + 1 /\ ~gret'.ok /\ gret'.err = "Fallback"
          /\ local' = local /\ redis' = redis]_vars

\* A get whose fallback failed was followed by a get that ran the fallback
\* again and stored its result.
C22_Witness ==
  /\ gret.fberrs >= 1
  /\ gret.ok /\ gret.src = "fallback"
  /\ gret.key \in DOMAIN local /\ gret.key \in DOMAIN redis

(***************************************************************************)
(* Heartbeat of a WsSession (ws.rs): started sets last_heartbeat and       *)
(* starts a 5-second interval; a tick stops the session when more than 10  *)
(* seconds have passed since last_heartbeat and pings otherwise; inbound   *)
(* ping and pong set last_heartbeat.  Time is in seconds.  A tick of the   *)
(* interval fires when it is due or up to HbMaxLate later: a timer never   *)
(* fires early.  History: owed (pings sent and not answered by a pong),    *)
(* missed (a tick found a ping unanswered), heard (an inbound ping or pong *)
(* was handled), closedAt (the tick that stopped the session) and tick     *)
(* (what the last tick saw and did).                                       *)
(***************************************************************************)
HbInterval == 5
HbTimeout  == 10

HbOthers == <<NotSide, cacheVars, convVars, rwVars>>

\* Instant::now().duration_since(act.last_heartbeat) > Duration::from_secs(10)
ExpiredAtTimeout(t, last) == t - last >= HbTimeout
Expired(t, last) == t - last > HbTimeout

\* Actor::started: last_heartbeat = now; start_heartbeat(ctx).
HbStarted ==
  /\ hs.st = "opening"
  /\ hs' = [hs EXCEPT !.st = "live", !.last_heartbeat = hnow,
                      !.due = hnow + HbInterval]
  /\ UNCHANGED <<HbOthers, hnow>>

\* The run_interval closure.
HbTick ==
  /\ hs.st = "live"
  /\ hnow >= hs.due
  /\ hs' = IF Expired(hnow, hs.last_heartbeat)
           THEN [hs EXCEPT !.st = "closing", !.nticks = @ + 1,
                           !.closedAt = hs.nticks + 1,
                           !.due = @ + HbInterval,
                           !.missed = @ \/ hs.owed > 0,
                           !.tick = [t |-> hnow, last |-> hs.last_heartbeat,
                                     closed |-> TRUE, ping |-> FALSE]]
           ELSE [hs EXCEPT !.nticks = @ + 1, !.due = @ + HbInterval,
                           !.missed = @ \/ hs.owed > 0,
                           !.owed = @ + 1,
                           !.tick = [t |-> hnow, last |-> hs.last_heartbeat,
                                     closed |-> FALSE, ping |-> TRUE]]
  /\ UNCHANGED <<HbOthers, hnow>>

\* StreamHandler::handle of an inbound Ping or Pong.  A pong answers the pings
\* sent so far.
HbInbound(kind) ==
  /\ hs.st = "live"
  /\ hs' = [hs EXCEPT !.last_heartbeat = hnow, !.heard = TRUE,
                      !.owed = IF kind = "pong" THEN 0 ELSE @]
  /\ UNCHANGED <<HbOthers, hnow>>

\* A second passes; a due tick is not delayed beyond HbMaxLate.
HbSecond ==
  /\ hnow < MaxHbClock
  /\ hs.st = "live" => hnow < hs.due + HbMaxLate
  /\ hnow' = hnow + 1
  /\ UNCHANGED <<HbOthers, hs>>

NextHb ==
  \/ HbStarted
  \/ HbTick
  \/ \E kind \in {"ping", "pong"} : HbInbound(kind)
  \/ HbSecond

SpecHb == Init /\ [][NextHb]_vars

\* What every tick does: it stops the session if and only if more than
\* HbTimeout seconds have passed since last_heartbeat, and pings otherwise.
TickRule ==
  hs.nticks > 0 =>
    /\ hs.tick.closed <=> hs.tick.t - hs.tick.last > HbTimeout
    /\ hs.tick.ping <=> ~hs.tick.closed
    /\ hs.tick.closed <=> hs.st = "closing"

\* A session whose client answers every ping before the next tick is never
\* stopped by the tick.
AnsweredNeverClosed == hs.st = "closing" => hs.missed

\* C23 as stated: the tick rule; a session that never hears from its client
\* is stopped at the third tick exactly; one whose client answers every ping
\* is never stopped by the tick.
C23_ClosedAtThirdTick ==
  /\ TickRule
  /\ AnsweredNeverClosed
  /\ ~hs.heard =>
       /\ hs.st = "closing" => hs.closedAt = 3
       /\ hs.st = "live" => hs.nticks < 3

\* C23, amended: the tick rule; a session that never hears from its client is
\* stopped at the second tick when that tick fires any later than exactly
\* HbTimeout after accept, and at the third tick otherwise; one whose client
\* answers every ping is never stopped by the tick.
C23_ClosedBySecondOrThirdTick ==
  /\ TickRule
  /\ AnsweredNeverClosed
  /\ ~hs.heard =>
       /\ hs.st = "closing" => hs.closedAt \in {2, 3}
       /\ hs.st = "live" => hs.nticks < 3

\* A silent client's session was stopped at the second tick, which fired
\* later than HbTimeout after accept.
C23_Witness ==
  /\ ~hs.heard
  /\ hs.st = "closing"
  /\ hs.closedAt = 2
  /\ hs.tick.t - hs.tick.last > HbTimeout

(***************************************************************************)
(* SpecFifo: sessions of one principal, requests addressed to it with      *)
(* payloads numbered in sending order, the registry and the sessions'      *)
(* ServerMessage handlers.                                                 *)
(***************************************************************************)
FifoUsers == {"alice"}

NextFifo ==
  \/ \E s \in Sessions, u \in FifoUsers : SessionStarted(s, u)
  \/ \E s \in Sessions : SessionStopped(s)
  \/ \E s \in Sessions, to \in FifoUsers : ClientPrivateText(s, to, sent + 1)
  \/ \E to \in FifoUsers : Dispatch(to, sent + 1)
  \/ HandleConnect
  \/ HandleDisconnect
  \/ HandlePrivate
  \/ HandleDeliver
  \/ \E s \in Sessions : SessionReceive(s)

SpecFifo == Init /\ [][NextFifo]_vars

PayloadsOf(frames) == [k \in 1..Len(frames) |-> frames[k].payload]

\* The payloads the registry handed to session s, in handling order.
RoutedTo(s) ==
  PayloadsOf(SelectSeq(routeLog[sessions[s].user], LAMBDA e : e.to = s))

\* C24: per-session FIFO. The text frames written to a session, followed by
\* the payloads still queued on its address, are the payloads of the requests
\* the registry handled for its principal and handed to that session, in
\* handling order, each once.
C24_PerSessionFifo ==
  \A s \in Sessions :
    sessions[s].st # "idle" =>
      /\ PayloadsOf(wire[s]) \o PayloadsOf(sinkq[s]) = RoutedTo(s)
      /\ \A i, j \in 1..Len(wire[s]) : i < j => wire[s][i].payload < wire[s][j].payload

\* A session was written two frames, a delivered message and a private one.
C24_Witness ==
  \E s \in Sessions :
    /\ Len(wire[s]) = 2
    /\ wire[s][1].kind # wire[s][2].kind

\* Where an envelope was first published, and the row that holds it.
FirstPos(i) == CHOOSE n \in Occurrences(i) : \A m \in Occurrences(i) : n <= m
RowOf(i) == CHOOSE k \in 1..Len(messages) : messages[k].id = i

\* C25: persistence order. Of two envelopes of one mailbox, the one published
\* to the topic first is persisted no later than the other: if the later one
\* has a row, the earlier one has a row before it.
C25_PersistenceOrder ==
  \A i, j \in MsgIds :
    (/\ i # j
     /\ Occurrences(i) # {} /\ Occurrences(j) # {}
     /\ FirstPos(i) < FirstPos(j)
     /\ stream[FirstPos(i)].mbox = stream[FirstPos(j)].mbox
     /\ Persisted(j))
    => (Persisted(i) /\ RowOf(i) < RowOf(j))

\* Three envelopes are persisted in publish order, the first two after a
\* failed handler call and a redelivery.
C25_Witness ==
  /\ Len(messages) = 3
  /\ \A n \in 1..3 : stream[n].wellformed /\ messages[n].id = stream[n].id
  /\ handed[1] = 2 /\ handed[2] = 2 /\ handed[3] = 1

(***************************************************************************)
(* create_conversation (handlers.rs): one transaction that inserts the     *)
(* conversation, the creator's participant edge and the other edges, then  *)
(* commits.  Dropping the transaction on an early return rolls it back.    *)
(* A request is served in one step; the outcome of every statement is an   *)
(* input.  The conversation insert is taken as the handler expects it: Ok  *)
(* with the row, or Err.  Participant::insert discards the error of its    *)
(* INSERT and returns Ok(()) whatever happened.                            *)
(***************************************************************************)
ConvNameSeq == <<"n1", "n2", "n3", "n4">>
ConvCreators == {"alice", "bob"}
ConvPayloads == {<<>>, <<"bob">>, <<"alice", "bob">>, <<"carol", "carol">>}

\* The statement of one Participant::insert inside the transaction: the edges
\* after it.  A repeated (conversation, participant) fails on UNIQUE.
EdgeInsert(edges, u, ok) ==
  IF ok /\ u \notin Range(edges) THEN Append(edges, u) ELSE edges

\* Participant::insert's return value.
ParticipantInsertResult(edges, u, ok) == TRUE

\* The edges after the loop over the other participants, or "abort" when an
\* insert returned Err (the handler rolls back).
RECURSIVE InsertOthers(_, _, _)
InsertOthers(edges, others, oks) ==
  IF others = <<>> THEN [ok |-> TRUE, edges |-> edges]
  ELSE IF ~ParticipantInsertResult(edges, Head(others), Head(oks))
  THEN [ok |-> FALSE, edges |-> edges]
  ELSE InsertOthers(EdgeInsert(edges, Head(others), Head(oks)), Tail(others), Tail(oks))

create_conversation(u, payload, beginok, convok, meok, oks, commitok) ==
  /\ http < MaxConv
  /\ http' = http + 1
  /\ LET name == ConvNameSeq[http + 1]
         others == SelectSeq(payload, LAMBDA q : q # u)
         mine == EdgeInsert(<<>>, u, meok)
         rest == InsertOthers(mine, others, oks)
         committed ==
           /\ payload # <<>> /\ beginok /\ convok
           /\ ParticipantInsertResult(<<>>, u, meok)
           /\ rest.ok /\ commitok
     IN /\ Len(oks) = Len(others)
        /\ resp' = Response("create_conversation", u, name,
                            IF payload = <<>> THEN 400
                            ELSE IF committed THEN 200 ELSE 500, <<>>)
        /\ IF committed
           THEN /\ conversations' = Append(conversations, [name |-> name, admin |-> u])
                /\ participants' = Put(participants, name, rest.edges)
           ELSE UNCHANGED <<conversations, participants>>
  /\ UNCHANGED <<queueVars, wpc, wbatch, crashes, processed, batchVars, cacheVars,
                 hbVars, rwVars, messages, message_receipts, receiptVars, registryVars,
                 srMailbox, pcache, req, msgChan, mcache, issued, boxes,
                 receipts_stream, wire>>

OutcomeSeqs == {<<>>, <<TRUE>>, <<FALSE>>, <<TRUE, TRUE>>, <<TRUE, FALSE>>,
                <<FALSE, TRUE>>, <<FALSE, FALSE>>}

NextConv ==
  \E u \in ConvCreators, payload \in ConvPayloads, oks \in OutcomeSeqs,
     beginok, convok, meok, commitok \in BOOLEAN :
    create_conversation(u, payload, beginok, convok, meok, oks, commitok)

SpecConv == Init /\ [][NextConv]_vars

C26_StoreFailureAnswered500 ==
  [][/\ \A r \in Requests :
          (req[r].pc = "lookup" /\ req'[r].pc \notin {"lookup", "check"})
          => /\ req'[r].pc = "error500"
             /\ msgChan' = msgChan /\ srMailbox' = srMailbox
     /\ (resp'.n # resp.n /\ resp'.kind = "peer_message")
          => /\ resp'.status = 500 => (msgChan' = msgChan /\ srMailbox' = srMailbox)
             /\ resp'.status = 200 =>
                  \E k \in 1..Len(boxes') : boxes'[k].owner = resp'.target]_vars

\* C27: mailbox existence. Every envelope handed to the messages topic names
\* an mbox that exists: the name of a conversations row, or the id of a boxes
\* row inserted before the envelope was handed over.
C27_MailboxExists ==
  \A k \in 1..Len(msgChan) :
    \/ \E c \in 1..Len(conversations) : conversations[c].name = msgChan[k].mbox
    \/ \E b \in 1..Len(boxes) : boxes[b].id = msgChan[k].mbox

(***************************************************************************)
(* Redelivery after a crash.  The publishers are the write path: every     *)
(* envelope is well-formed and carries a fresh uuid.  The store and Redis  *)
(* may fail, but not for ever: a handler call that finds the store         *)
(* reachable and an XACK that goes through are taken again and again       *)
(* while the worker keeps arriving at them.                                *)
(***************************************************************************)
NextRedelivery ==
  \/ \E p \in Envelopes : PublishFresh(p)
  \/ BwReadPending
  \/ BwReadNew
  \/ BwProcess
  \/ BwAck
  \/ BwCrash
  \/ BwRestart

SpecRedelivery == Init /\ [][NextRedelivery]_vars

FairSpecRedelivery ==
  /\ Init
  /\ [][NextRedelivery]_vars
  /\ WF_vars(BwReadPending)
  /\ WF_vars(BwReadNew)
  /\ SF_vars(BwProcessWith(TRUE))
  /\ SF_vars(BwAckWith(TRUE))
  /\ WF_vars(BwRestart)

\* The worker is down and an entry whose envelope is already a row of
\* messages is still pending: the handler succeeded on it and the worker
\* died before the entry was acknowledged.
CrashedBeforeAck(n) ==
  /\ bpc = "down"
  /\ n \in pel
  /\ Persisted(stream[n].id)

\* Everything published so far is a row of messages and nothing is pending.
CaughtUp ==
  /\ pel = {}
  /\ \A n \in 1..Len(stream) : Persisted(stream[n].id)

\* C29: after a crash between the handler's success and the ack, the
\* restarted worker hands the same entries to the handler again, the
\* messages table never holds two rows for one envelope, the re-read
\* entries are eventually acknowledged, and the worker eventually catches
\* up: the pending set is empty and every published envelope, the later
\* ones included, is persisted.
C29_CrashRedelivery ==
  /\ [](\A i \in MsgIds : RowsWithId(i) <= 1)
  /\ \A n \in 1..MaxStream :
       /\ CrashedBeforeAck(n) ~> (handed[n] = 2)
       /\ CrashedBeforeAck(n) ~> (n \notin pel)
       /\ CrashedBeforeAck(n) ~> CaughtUp

\* C30: when a batch holding an envelope whose id is already stored is
\* handed to the handler with the store reachable, every other envelope of
\* the batch becomes a row, the table still has one row for the stored id,
\* and the handler returns every entry id of the batch for the ack.
C30_ConflictSkipped ==
  [][(/\ bpc = "process"
      /\ Deserialized(bentries) # <<>>
      /\ \E k \in 1..Len(bentries) : bentries[k].payload.wellformed
                                       /\ Persisted(bentries[k].payload.id)
      /\ BwProcessWith(TRUE))
     => /\ \A k \in 1..Len(bentries) :
             bentries[k].payload.wellformed
               => RowsWithId(bentries[k].payload.id)' = 1
        /\ ackIds' = EidsOf(Deserialized(bentries))
        /\ bpc' = "ack"]_vars

(***************************************************************************)
(* The order of the two reads of one iteration.                            *)
(***************************************************************************)
\* C31: the worker reads never-delivered entries only right after a pending
\* read that returned nothing, so never while an entry is pending for it; a
\* pending read that returned entries hands exactly those to the handler;
\* and a batch never holds more than BatchMax (the source's COUNT 100)
\* entries.
C31_PendingFirst ==
  /\ [](Len(bentries) <= BatchMax /\ Len(Deserialized(bentries)) <= BatchMax)
  /\ [][/\ (bpc' = "new" /\ bpc # "new") => (bpc = "pending" /\ pel = {})
        /\ lastDelivered' # lastDelivered => (bpc = "new" /\ pel = {})
        /\ (bpc = "pending" /\ bpc' = "process")
             => (bentries' # <<>> /\ EidsOf(bentries') \subseteq pel
                 /\ lastDelivered' = lastDelivered)]_vars

\* A pending read returned an entry that had been handed to the handler
\* before, while a never-delivered entry waits in the stream.
C31_Witness ==
  /\ bpc = "process"
  /\ bentries # <<>>
  /\ \A k \in 1..Len(bentries) : handed[bentries[k].eid] >= 1
  /\ lastDelivered < Len(stream)

(***************************************************************************)
(* receipt_worker: XREADGROUP GROUP receipts_group worker-1 COUNT 200      *)
(* BLOCK 5000 STREAMS receipts_stream > (unwrapped), a transaction, one    *)
(* MessageReceipt::upsert per entry with its result discarded, and         *)
(* `let _ = tx.commit().await`.  The loop has no XACK and no read of "0".  *)
(***************************************************************************)
RwFrame == <<queueVars, wpc, wbatch, crashes, processed, batchVars, cacheVars,
             hbVars, convVars, messages, participants, now, stmt, registryVars,
             srMailbox, pcache, req, msgChan, mcache, issued, boxes, resp, http,
             wire, replay>>

\* The receipts the publishers of this specification append: a delivery, a
\* read and a reaction.
WorkerReceipts ==
  {[message |-> "m1", user |-> "alice", delivered |-> TRUE, read |-> FALSE, reaction |-> Null],
   [message |-> "m1", user |-> "alice", delivered |-> FALSE, read |-> TRUE, reaction |-> Null],
   [message |-> "m1", user |-> "bob", delivered |-> FALSE, read |-> FALSE, reaction |-> 3]}

\* XADD receipts_stream * payload <receipt>
PublishReceipt(r) ==
  /\ Len(receipts_stream) < MaxReceipts
  /\ receipts_stream' = Append(receipts_stream, r)
  /\ UNCHANGED <<RwFrame, message_receipts, hist, rwVars>>

\* The never-delivered entries of receipts_stream, at most COUNT.
RwNewEntries ==
  [k \in 1..Min(ReceiptCount, Len(receipts_stream) - rLast) |->
     [eid |-> rLast + k, payload |-> receipts_stream[rLast + k]]]

\* The read: a Redis error panics the task on unwrap; an empty reply goes
\* round the loop; a reply with entries makes them pending for worker-1.
RwRead(readok) ==
  /\ rpc = "read"
  /\ IF readok
     THEN /\ RwNewEntries # <<>>
          /\ rentries' = RwNewEntries
          /\ rLast' = rLast + Len(RwNewEntries)
          /\ rpel' = rpel \cup EidsOf(RwNewEntries)
          /\ rpc' = "process"
          /\ UNCHANGED rcrashes
     ELSE /\ rcrashes < MaxCrash
          /\ rcrashes' = rcrashes + 1
          /\ rpc' = "down"
          /\ UNCHANGED <<rentries, rLast, rpel>>
  /\ UNCHANGED <<RwFrame, message_receipts, hist, receipts_stream, rdone>>

\* The for loop inside the transaction: the upserts that went through, in
\* entry order; a failed upsert is discarded and the loop goes on.
RECURSIVE UpsertAll(_, _, _, _, _)
UpsertAll(table, h, entries, oks, t) ==
  IF entries = <<>>
  THEN [table |-> table, hist |-> h]
  ELSE IF Head(oks)
       THEN UpsertAll(upsert(table, Head(entries).payload, t),
                      Record(h, Head(entries).payload, t),
                      Tail(entries), Tail(oks), t)
       ELSE UpsertAll(table, h, Tail(entries), Tail(oks), t)

\* begin (an Err goes round the loop), the upserts, the commit with its
\* result discarded; then the next iteration.  Nothing is acknowledged.
RwProcessWith(beginok, oks, commitok) ==
  /\ rpc = "process"
  /\ Len(oks) = Len(rentries)
  /\ LET out == UpsertAll(message_receipts, hist, rentries, oks, now)
     IN IF beginok /\ commitok
        THEN /\ message_receipts' = out.table
             /\ hist' = out.hist
             /\ rdone' = rdone \cup {rentries[k].eid : k \in {j \in 1..Len(rentries) : oks[j]}}
        ELSE UNCHANGED <<message_receipts, hist, rdone>>
  /\ rpc' = "read"
  /\ rentries' = <<>>
  /\ UNCHANGED <<RwFrame, receipts_stream, rLast, rpel, rcrashes>>

RwProcess ==
  \E beginok, commitok \in BOOLEAN :
    \E oks \in [1..Len(rentries) -> BOOLEAN] : RwProcessWith(beginok, oks, commitok)

\* An iteration in which the store does everything it is asked.
RwProcessOk == RwProcessWith(TRUE, [k \in 1..Len(rentries) |-> TRUE], TRUE)

\* The process is started again after a panic.
RwRestart ==
  /\ rpc = "down"
  /\ rpc' = "read"
  /\ rentries' = <<>>
  /\ UNCHANGED <<RwFrame, message_receipts, hist, receipts_stream, rLast, rpel,
                 rdone, rcrashes>>

NextRw ==
  \/ \E r \in WorkerReceipts : PublishReceipt(r)
  \/ \E readok \in BOOLEAN : RwRead(readok)
  \/ RwProcess
  \/ RwRestart
  \/ Tick

SpecRw == Init /\ [][NextRw]_vars

\* The worker keeps running, and the store and Redis fail only finitely
\* often.
FairSpecRw ==
  /\ Init
  /\ [][NextRw]_vars
  /\ WF_vars(RwRead(TRUE))
  /\ WF_vars(RwProcess)
  /\ SF_vars(RwProcessOk)
  /\ WF_vars(RwRestart)

\* C32: an entry leaves the pending set of receipts_group only when its
\* batch was committed, and a committed entry does leave it; a batch is
\* persisted as a whole or not at all; and every entry of receipts_stream
\* is eventually persisted, the ones of a failed batch by redelivery.
C32_AckIffCommitted ==
  /\ [][/\ (rpel \ rpel') \subseteq rdone'
        /\ (rdone' \ rdone) \in {{}, EidsOf(rentries)}]_vars
  /\ \A n \in 1..MaxReceipts :
       /\ (n \in rdone) ~> (n \notin rpel)
       /\ (n <= Len(receipts_stream)) ~> (n \in rdone)

(***************************************************************************)
(* Receipts and messages in either order.  message_receipts as             *)
(* MessageReceipt::create_table makes it has UNIQUE(message, user) and no  *)
(* reference to messages, so an upsert never looks at that table.          *)
(***************************************************************************)
\* A table declared with FOREIGN KEY(message) REFERENCES messages(id), under
\* enforced foreign keys.
ReferencesOkForeignKey(msgs, r) == r.message \in IdsOf(msgs)

\* The constraints of message_receipts that involve other tables: none.
ReferencesOk(msgs, r) == TRUE

\* The receipt worker's upsert of one event; a statement the table rejects
\* changes nothing and its error is discarded.
ReceiptStore(r) ==
  /\ ~stmt.open
  /\ message_receipts' = IF ReferencesOk(messages, r)
                         THEN upsert(message_receipts, r, now)
                         ELSE message_receipts
  /\ hist' = Record(hist, r, now)
  /\ UNCHANGED <<queueVars, workerVars, messages, participants, now, stmt,
                 registryVars, srMailbox, writeVars>>

NextOrder ==
  \/ \E m \in StoredMessages : StoreMessage(m)
  \/ \E r \in WorkerReceipts : ReceiptStore(r)
  \/ Tick

SpecOrder == Init /\ [][NextOrder]_vars

MaxBatchLen == 2

ReplayEvents ==
  WorkerReceipts \cup
    {[message |-> "m1", user |-> "alice", delivered |-> FALSE, read |-> FALSE, reaction |-> 7]}

ReplayBatches ==
  UNION {[1..n -> ReplayEvents] : n \in 0..MaxBatchLen}

\* A conflict clause that overwrites the stored row with the incoming one.
overwrite_row(table, r, t) == Put(table, <<r.message, r.user>>, Excluded(r, t))

RECURSIVE batch_upsert_overwrite(_, _, _)
batch_upsert_overwrite(table, receipts, t) ==
  IF receipts = <<>>
  THEN table
  ELSE batch_upsert_overwrite(overwrite_row(table, Head(receipts), t), Tail(receipts), t)

RECURSIVE batch_upsert(_, _, _)
batch_upsert(table, receipts, t) ==
  IF receipts = <<>>
  THEN table
  ELSE batch_upsert(batch_row(table, Head(receipts), t), Tail(receipts), t)

RECURSIVE RecordAll(_, _, _)
RecordAll(h, receipts, t) ==
  IF receipts = <<>> THEN h ELSE RecordAll(Record(h, Head(receipts), t), Tail(receipts), t)

ReplayFrame == <<queueVars, wpc, wbatch, crashes, processed, batchVars, cacheVars,
                 hbVars, convVars, rpc, rentries, rLast, rpel, rdone, rcrashes,
                 messages, participants, now, stmt, registryVars, srMailbox,
                 writeVars>>

\* An upsert of one receipt before the batch arrives.
ReplayFill(r) ==
  /\ replay.phase = "idle"
  /\ ReceiptUpsert(r)

\* batch_upsert(receipts), for the first time.
ApplyBatch(receipts) ==
  /\ replay.phase = "idle"
  /\ ~stmt.open
  /\ message_receipts' = batch_upsert(message_receipts, receipts, now)
  /\ hist' = RecordAll(hist, receipts, now)
  /\ replay' = [phase |-> "once", batch |-> receipts, once |-> message_receipts']
  /\ UNCHANGED ReplayFrame

\* batch_upsert of the same receipts again.
ReplayBatch ==
  /\ replay.phase = "once"
  /\ ~stmt.open
  /\ message_receipts' = batch_upsert(message_receipts, replay.batch, now)
  /\ hist' = RecordAll(hist, replay.batch, now)
  /\ replay' = [replay EXCEPT !.phase = "twice"]
  /\ UNCHANGED ReplayFrame

ReplayDone ==
  /\ replay.phase = "twice"
  /\ replay' = [phase |-> "idle", batch |-> <<>>, once |-> EmptyMap]
  /\ UNCHANGED <<ReplayFrame, message_receipts, hist>>

NextReplay ==
  \/ \E r \in ReplayEvents : ReplayFill(r)
  \/ \E receipts \in ReplayBatches : ApplyBatch(receipts)
  \/ ReplayBatch
  \/ ReplayDone
  \/ Tick

SpecReplay == Init /\ [][NextReplay]_vars

\* C34: after a batch of receipts has been applied a second time,
\* message_receipts is what it was after the first application: the same
\* pairs with the same delivered_at, read_at and reaction.
C34_ReplayIdempotent ==
  replay.phase = "twice" => message_receipts = replay.once

\* A batch of two receipts of one pair, one with a reaction, was applied to
\* a store that already had a row of the pair, and again at a later time.
C34_Witness ==
  /\ replay.phase = "twice"
  /\ Len(replay.batch) = 2
  /\ replay.batch[1].user = replay.batch[2].user
  /\ replay.batch[1].reaction # Null
  /\ replay.batch[2].delivered
  /\ \E k \in DOMAIN message_receipts :
       /\ message_receipts[k].delivered_at # Null
       /\ hist[k].dlast > message_receipts[k].delivered_at
       /\ message_receipts[k].read_at # Null

(***************************************************************************)
(* Sinks of terminated sessions.                                           *)
(***************************************************************************)
\* No session of p is live and the registry has no Connect or Disconnect of
\* p left to handle.
Terminated(p) ==
  /\ \A s \in Sessions : sessions[s].st = "live" => sessions[s].user # p
  /\ \A k \in 1..Len(srMailbox) :
       srMailbox[k].kind \in {"Connect", "Disconnect"} => srMailbox[k].user # p

\* C35: a session that stops being live sends Disconnect for its principal;
\* once every session of p has terminated and the registry has handled p's
\* Connects and Disconnects, users has no entry for p; and a DeliverMessage
\* or PrivateMessage for a principal without an entry is dropped: no frame
\* is queued or written and no receipt is published.
C35_NoDanglingSinks ==
  /\ [](\A p \in Principals : Terminated(p) => p \notin DOMAIN users)
  /\ [][/\ \A s \in Sessions :
             (sessions[s].st = "live" /\ sessions'[s].st # "live")
               => srMailbox' = Append(srMailbox, DisconnectMsg(sessions[s].user, s))
        /\ (/\ srMailbox # <<>>
            /\ srMailbox' = Tail(srMailbox)
            /\ Head(srMailbox).kind \in {"Deliver", "Private"}
            /\ Head(srMailbox).user \notin DOMAIN users)
             => (sinkq' = sinkq /\ wire' = wire /\ receipts_stream' = receipts_stream)]_vars

\* Two sessions of bob connected and stopped, the registry handled all four
\* requests and has no entry for bob, and a DeliverMessage for bob is next.
C35_Witness ==
  /\ Len(connLog["bob"]) = 2
  /\ \A s \in Sessions : sessions[s].st = "stopped" /\ sessions[s].user = "bob"
  /\ "bob" \notin DOMAIN users
  /\ Len(srMailbox) = 1
  /\ Head(srMailbox).kind = "Deliver"
  /\ Head(srMailbox).user = "bob"

(***************************************************************************)
(* The default mailbox of a principal.                                     *)
(***************************************************************************)
\* C36: every resolution of a principal's default mailbox returns the same
\* id, so no two ids are ever issued for one principal, and boxes holds at
\* most one row owned by the principal.
C36_OneDefaultMailbox ==
  /\ \A i, j \in DOMAIN issued : issued[i] = issued[j] => i = j
  /\ \A u \in Principals : Len(OwnedBoxes(u)) <= 1

(***************************************************************************)
(* Authorization under store errors.  GET /conversations/{name} answers    *)
(* 403 to a non-participant; for a participant it selects name, title,     *)
(* admin, created: no row is 404, a row does not decode into               *)
(* ConversationResponse, which has the field mbox, and any other error is  *)
(* 500 too.                                                                *)
(***************************************************************************)
get_conversation(u, name) ==
  /\ http < MaxHttp
  /\ http' = http + 1
  /\ \E dbok, rok \in BOOLEAN :
       LET found == \E k \in 1..Len(conversations) : conversations[k].name = name
       IN resp' = IF ~is_participant(name, u, dbok)
                  THEN AuthResponse("get_conversation", u, name, 403, <<>>, dbok)
                  ELSE AuthResponse("get_conversation", u, name,
                                    IF ~found /\ rok THEN 404 ELSE 500, <<>>, dbok)
  /\ UNCHANGED <<queueVars, workerVars, storeVars, receiptVars, registryVars,
                 srMailbox, pcache, req, msgChan, mcache, issued, boxes,
                 receipts_stream, wire>>

\* The three endpoints over a store that gains messages, participants and
\* receipts.
NextAuthz ==
  \/ \E m \in StoredMessages : StoreMessage(m)
  \/ \E c \in Convs : \E u \in Subjects(c) : ParticipantInsert(c, u)
  \/ \E r \in WorkerReceipts : ReceiptStore(r)
  \/ \E u \in FetchUsers, name \in FetchMboxes : get_messages(u, name, MessageLimit)
  \/ \E u \in FetchUsers, name \in FetchMboxes : get_conversation(u, name)
  \/ \E u \in FetchUsers, m \in FetchMsgIds : get_receipts(u, m)

SpecAuthz == Init /\ [][NextAuthz]_vars

AuthEndpoints == {"get_messages", "get_conversation", "get_receipts"}

\* C37: when the query behind is_participant or is_sender fails, get_messages
\* and get_conversation answer 403 and get_receipts answers 404, the response
\* carries no message and no receipt, and no receipt event is sent.
C37_FailClosed ==
  /\ []((resp.kind \in AuthEndpoints /\ ~resp.dbok)
          => /\ resp.status = IF resp.kind = "get_receipts" THEN 404 ELSE 403
             /\ resp.rows = IF resp.kind = "get_receipts" THEN {} ELSE <<>>)
  /\ [][(resp'.n # resp.n /\ resp'.kind \in AuthEndpoints /\ ~resp'.dbok)
          => receipts_stream' = receipts_stream]_vars

\* The participant check of a participant failed on the store while the
\* conversation has messages, and the request was answered 403.
C37_Witness ==
  /\ resp.kind = "get_messages"
  /\ ~resp.dbok
  /\ resp.status = 403
  /\ resp.target \in DOMAIN participants
  /\ resp.user \in Range(participants[resp.target])
  /\ \E k \in 1..Len(messages) : messages[k].mbox = resp.target
  /\ http = 1

(***************************************************************************)
(* Message::retrieve with filters.  MessageFilters is {source, reply_to,   *)
(* created, limit, offset}, every field optional (NoFilter, Null: none).   *)
(* The statement is SELECT ... FROM messages WHERE 1=1 <filters> AND       *)
(* mbox = ? LIMIT ? OFFSET ?, without ORDER BY: the rows come in the       *)
(* order of the table.                                                     *)
(***************************************************************************)
NoFilter == "none"
MaxRows == 2

FilterIds == {"m1", "m2", "m3"}
\* created of the message with a given id: later ids were stamped earlier.
CreatedOf(i) == IF i = "m1" THEN 3 ELSE IF i = "m2" THEN 2 ELSE 1

FilterRows ==
  {[wellformed |-> TRUE, id |-> i, mbox |-> b, source |-> u, reply_to |-> r,
    created |-> CreatedOf(i)] :
     i \in FilterIds, b \in {"c1", "b1"}, u \in {"alice", "bob"}, r \in {Null, 7}}

MessageFilterSet ==
  [source : {NoFilter, "alice"}, reply_to : {Null, 7}, created : {Null, 2},
   limit : {Null, 1}, offset : {Null, 1}]

\* MessageFilters::limit and ::offset
limit(q) == IF q.limit = Null THEN MessageLimit ELSE q.limit
offset(q) == IF q.offset = Null THEN 0 ELSE q.offset

\* build_filters: the conditions pushed on the WHERE clause; source is
\* pushed in the else branch of reply_to.
build_filters(row, q) ==
  /\ q.created # Null => row.created = q.created
  /\ IF q.reply_to # Null
     THEN row.reply_to = q.reply_to
     ELSE q.source # NoFilter => row.source = q.source

\* Message::retrieve(db, mbox, query)
retrieve_messages(table, mbox, q) ==
  LET rows == SelectSeq(table, LAMBDA row : build_filters(row, q) /\ row.mbox = mbox)
  IN SubSeq(rows, offset(q) + 1, Min(Len(rows), offset(q) + limit(q)))

\* A message becomes a row of messages.
FilterStore(m) ==
  /\ Len(messages) < MaxRows
  /\ StoreMessage(m)

\* A fetch calls Message::retrieve; the response records the query.
FilterFetch(mbox, q) ==
  /\ http < MaxHttp
  /\ http' = http + 1
  /\ resp' = [n |-> http + 1, kind |-> "retrieve", user |-> "none", target |-> mbox,
              status |-> 200, rows |-> retrieve_messages(messages, mbox, q), query |-> q]
  /\ UNCHANGED <<queueVars, workerVars, storeVars, receiptVars, registryVars,
                 srMailbox, pcache, req, msgChan, mcache, issued, boxes,
                 receipts_stream, wire>>

NextFilter ==
  \/ \E m \in FilterRows : FilterStore(m)
  \/ \E q \in MessageFilterSet : FilterFetch("c1", q)

SpecFilter == Init /\ [][NextFilter]_vars

\* The rows of the mailbox that match every filter that was given.
Matching(table, mbox, q) ==
  {k \in 1..Len(table) :
     /\ table[k].mbox = mbox
     /\ q.source # NoFilter => table[k].source = q.source
     /\ q.reply_to # Null => table[k].reply_to = q.reply_to
     /\ q.created # Null => table[k].created = q.created}

\* The rows at the positions S, by created ascending (created is distinct
\* from row to row here).
ByCreated(table, S) ==
  [i \in 1..Cardinality(S) |->
     table[CHOOSE k \in S :
             Cardinality({j \in S : table[j].created < table[k].created}) = i - 1]]

Expected(table, mbox, q) ==
  LET rows == ByCreated(table, Matching(table, mbox, q))
  IN SubSeq(rows, offset(q) + 1, Min(Len(rows), offset(q) + Min(limit(q), MessageLimit)))

\* C38: a fetch returns exactly the rows of the mailbox that match all the
\* filters given, by created ascending, after skipping offset rows, and at
\* most min(limit, MessageLimit) of them.
C38_FiltersConjunctive ==
  [][(resp'.n # resp.n /\ resp'.kind = "retrieve")
       => resp'.rows = Expected(messages, resp'.target, resp'.query)]_vars

(***************************************************************************)
(* SpecRelay: sessions, private frames from clients, inbox posts, the      *)
(* registry and the sessions' ServerMessage handlers.                      *)
(***************************************************************************)
NextRelay ==
  \/ \E s \in Sessions, u \in SessionUsers : SessionStarted(s, u)
  \/ \E s \in Sessions : SessionStopped(s)
  \/ \E s \in Sessions, to \in SessionUsers : ClientPrivate(s, to)
  \/ \E u \in PeerSenders, peer \in SessionUsers : peer_message(u, peer)
  \/ HandleConnect
  \/ HandleDisconnect
  \/ HandlePrivate
  \/ HandleDeliver
  \/ \E s \in Sessions : SessionReceive(s)

SpecRelay == Init /\ [][NextRelay]_vars

\* The ids of the envelopes published to the messages topic.
PostedIds == {msgChan[j].id : j \in 1..Len(msgChan)}

\* C39: every receipt published to the receipts topic by a session has as
\* its message the id of an envelope that was published to the messages
\* topic, and a session that writes a relayed private frame publishes no
\* receipt for it.
C39_ReceiptsReferToPosted ==
  /\ [](\A k \in 1..Len(receipts_stream) : receipts_stream[k].message \in PostedIds)
  /\ [][\A s \in Sessions :
          (Len(wire'[s]) > Len(wire[s]) /\ Head(sinkq[s]).kind = "private")
            => receipts_stream' = receipts_stream]_vars

(***************************************************************************)
(* SpecPrivate: text frames from clients.  A client frame is a record      *)
(* [type, to, content, from]: ClientMessage has the fields type, to and    *)
(* content, and any other field of the JSON text, such as a from the       *)
(* client made up, is dropped by the parse.                                *)
(***************************************************************************)
ClientFrames ==
  [type : {"private", "other"}, to : SessionUsers, content : {0}, from : SessionUsers]

\* A sender taken from the client's text.
FrameSenderClaimed(s, frame) == frame.from

\* PrivateMessage.from is the session's user_id.
FrameSender(s, frame) == sessions[s].user

\* StreamHandler, ws::Message::Text: a parsed frame of type private becomes
\* a PrivateMessage request to the registry; any other frame is ignored.
ClientText(s, frame) ==
  /\ sessions[s].st = "live"
  /\ sent < MaxSent
  /\ sent' = sent + 1
  /\ srMailbox' = IF frame.type = "private"
                  THEN Append(srMailbox,
                              PrivateMessage(FrameSender(s, frame), frame.to, frame.content, s))
                  ELSE srMailbox
  /\ UNCHANGED <<queueVars, workerVars, storeVars, receiptVars,
                 users, sessions, sinkq, connLog, routeLog, writeVars>>

NextPrivate ==
  \/ \E s \in Sessions, u \in SessionUsers : SessionStarted(s, u)
  \/ \E s \in Sessions : SessionStopped(s)
  \/ \E s \in Sessions, frame \in ClientFrames : ClientText(s, frame)
  \/ HandleConnect
  \/ HandleDisconnect
  \/ HandlePrivate

SpecPrivate == Init /\ [][NextPrivate]_vars

\* C40: private frames cannot be spoofed. When the registry handles a
\* private request, the only sink that gains a frame is the one registered
\* for the principal named in the request's to, the frame it gains carries
\* as from the principal of the session that sent the client frame, and
\* no sink gains anything when that principal has no sink.
C40_NoSpoofing ==
  [][(srMailbox # <<>> /\ Head(srMailbox).kind = "Private" /\ srMailbox' = Tail(srMailbox))
       => LET msg == Head(srMailbox)
          IN /\ \A t \in Sessions :
                  sinkq'[t] # sinkq[t] =>
                    /\ msg.user \in DOMAIN users
                    /\ t = users[msg.user]
                    /\ sinkq'[t] = Append(sinkq[t],
                                          [kind |-> "private",
                                           from |-> sessions[msg.by].user,
                                           payload |-> msg.payload, id |-> 0])
             /\ msg.user \notin DOMAIN users => sinkq' = sinkq]_vars

\* The sink of bob's session holds a private frame from alice, and a private
\* request addressed to a principal with no sink was dropped.
C40_Witness ==
  /\ \E t \in Sessions :
       /\ sessions[t].user = "bob"
       /\ "bob" \in DOMAIN users /\ users["bob"] = t
       /\ \E k \in 1..Len(sinkq[t]) :
            sinkq[t][k].kind = "private" /\ sinkq[t][k].from = "alice"
  /\ \E p \in SessionUsers : \E k \in 1..Len(routeLog[p]) : routeLog[p][k].to = 0

====
